---- MODULE Spec2Model ----
(***************************************************************************)
(* Manifest assembly (generator.Generate and the per-document generators)  *)
(* and post-generation validation (generator.ValidateGenerated) of dorgu,  *)
(* the resolution of the configuration layers in runGenerate, and the      *)
(* operator client (ws.Client).                                            *)
(*                                                                         *)
(* Conventions                                                             *)
(*  - a Go pointer is a sequence of length 0 (nil) or 1 (the pointee);      *)
(*  - a Go map[string]string is a TLA+ function on its key set;            *)
(*  - a resource quantity ("100m", "1Gi") is a sequence of one-character   *)
(*    strings, so that parsing is computed and not assumed;                *)
(*  - a generated document's Content is the manifest object handed to the  *)
(*    serializer (toYAML / strings.Builder), field by field.               *)
(*  - a goroutine is a program counter; a step taken under the client's   *)
(*    mutex is one action; call is the caller's goroutine and the result   *)
(*    of its last call, call2 a second goroutine that calls the client     *)
(*    while the first is in a call;                                        *)
(*  - a channel of capacity 1 is a pointer: nil while empty; the pending-  *)
(*    response map holds, per request id, the goroutine whose channel was  *)
(*    registered.                                                          *)
(***************************************************************************)
EXTENDS Integers, Sequences, FiniteSets, TLC

VARIABLES analysis, opts, files, prevFiles, genErr, genCalls, llmOutcome, prevLLMOutcome,
          result, validated, layers, effective,
          command, client, conns, call, call2, now, invoked

vars == <<analysis, opts, files, prevFiles, genErr, genCalls, llmOutcome, prevLLMOutcome,
          result, validated, layers, effective,
          command, client, conns, call, call2, now, invoked>>

-----------------------------------------------------------------------------
(* Bounds *)

MaxPorts == 2
MaxCalls == 2

-----------------------------------------------------------------------------
(* Pointers and maps *)

Nil == <<>>
Ptr(x) == <<x>>
IsNil(p) == Len(p) = 0
Deref(p) == p[1]

EmptyMap == <<>>
MapMerge(base, over) ==
    [k \in (DOMAIN base) \cup (DOMAIN over) |-> IF k \in DOMAIN over THEN over[k] ELSE base[k]]

-----------------------------------------------------------------------------
(* Resource quantities *)

Digits == {"0", "1", "2", "3", "4", "5", "6", "7", "8", "9"}

DigitVal(c) ==
    CASE c = "0" -> 0 [] c = "1" -> 1 [] c = "2" -> 2 [] c = "3" -> 3 [] c = "4" -> 4
      [] c = "5" -> 5 [] c = "6" -> 6 [] c = "7" -> 7 [] c = "8" -> 8 [] c = "9" -> 9

HasSuffix(s, suf) ==
    /\ Len(s) >= Len(suf)
    /\ SubSeq(s, Len(s) - Len(suf) + 1, Len(s)) = suf

TrimSuffix(s, suf) == IF HasSuffix(s, suf) THEN SubSeq(s, 1, Len(s) - Len(suf)) ELSE s

\* Length of the longest prefix of s made of decimal digits.
RECURSIVE DigitPrefixLen(_)
DigitPrefixLen(s) ==
    IF Len(s) = 0 \/ Head(s) \notin Digits THEN 0 ELSE 1 + DigitPrefixLen(Tail(s))

RECURSIVE DigitsValue(_, _)
DigitsValue(s, acc) ==
    IF Len(s) = 0 THEN acc ELSE DigitsValue(Tail(s), acc * 10 + DigitVal(Head(s)))

\* fmt.Sscanf(s, "%d", &n): an optional sign, then the leading run of digits;
\* with no digit the scan fails and n keeps its zero value.
SscanInt(s) ==
    LET neg  == Len(s) > 0 /\ Head(s) = "-"
        body == IF Len(s) > 0 /\ Head(s) \in {"-", "+"} THEN Tail(s) ELSE s
        n    == DigitPrefixLen(body)
        v    == DigitsValue(SubSeq(body, 1, n), 0)
    IN  IF n = 0 THEN 0 ELSE IF neg THEN 0 - v ELSE v

Limb == 1024

\* A natural number wider than 32 bits is held as its digits in base Limb,
\* most significant first, without leading zeros (<<>> is 0).
RECURSIVE BigOf(_)
BigOf(n) == IF n = 0 THEN <<>> ELSE Append(BigOf(n \div Limb), n % Limb)

RECURSIVE BigValue(_, _)
BigValue(b, acc) == IF Len(b) = 0 THEN acc ELSE BigValue(Tail(b), Limb * acc + Head(b))

RECURSIVE StripZeros(_)
StripZeros(b) == IF Len(b) > 0 /\ Head(b) = 0 THEN StripZeros(Tail(b)) ELSE b

Zeros(n) == [i \in 1..n |-> 0]

RECURSIVE Pow2(_)
Pow2(k) == IF k = 0 THEN 1 ELSE 2 * Pow2(k - 1)

RECURSIVE BitLenInt(_)
BitLenInt(n) == IF n = 0 THEN 0 ELSE 1 + BitLenInt(n \div 2)

BitLen(b) == IF Len(b) = 0 THEN 0 ELSE 10 * (Len(b) - 1) + BitLenInt(Head(b))

\* b * c + carry for a factor c of at most 20 bits.
RECURSIVE MulBig(_, _, _)
MulBig(b, c, carry) ==
    IF Len(b) = 0 THEN BigOf(carry)
    ELSE LET t == b[Len(b)] * c + carry
         IN  Append(MulBig(SubSeq(b, 1, Len(b) - 1), c, t \div Limb), t % Limb)

\* Quotient and remainder of b by a divisor d of at most 20 bits.
RECURSIVE DivBig(_, _, _, _)
DivBig(b, d, q, r) ==
    IF Len(b) = 0 THEN [Q |-> StripZeros(q), R |-> r]
    ELSE LET t == Limb * r + Head(b)
         IN  DivBig(Tail(b), d, Append(q, t \div d), t % d)

RECURSIVE IncBig(_)
IncBig(b) ==
    IF Len(b) = 0 THEN <<1>>
    ELSE IF b[Len(b)] < Limb - 1 THEN [b EXCEPT ![Len(b)] = @ + 1]
    ELSE Append(IncBig(SubSeq(b, 1, Len(b) - 1)), 0)

\* b * 2^z and floor(b / 2^z).
ShiftLeft(b, z) == MulBig(b \o Zeros(z \div 10), Pow2(z % 10), 0)
ShiftRight(b, z) ==
    IF z \div 10 >= Len(b) THEN <<>>
    ELSE DivBig(SubSeq(b, 1, Len(b) - z \div 10), Pow2(z % 10), <<>>, 0).Q

\* Quotient q with remainder r of a division by d, rounded to nearest, ties
\* to even.
RoundNearestEven(q, r, d) ==
    IF 2 * r > d \/ (2 * r = d /\ q[Len(q)] % 2 = 1) THEN IncBig(q) ELSE q

\* A positive float64 is [M, E] with value M * 2^E and M of at most 53 bits
\* (IEEE 754 binary64); zero is [M |-> <<>>, E |-> 0].
Float64(m, e) ==
    IF BitLen(m) = 54 THEN [M |-> ShiftRight(m, 1), E |-> e + 1] ELSE [M |-> m, E |-> e]

\* The float64 nearest to n / d, as strconv.ParseFloat returns it for a
\* decimal with value n / d.
ParseFloat(n, d) ==
    IF n = 0 THEN [M |-> <<>>, E |-> 0]
    ELSE LET z0 == 53 + BitLenInt(d) - BitLenInt(n)
             q0 == DivBig(ShiftLeft(BigOf(n), z0), d, <<>>, 0)
             z  == IF BitLen(q0.Q) = 54 THEN z0 - 1 ELSE z0
             dv == IF z = z0 THEN q0 ELSE DivBig(ShiftLeft(BigOf(n), z), d, <<>>, 0)
         IN  Float64(RoundNearestEven(dv.Q, dv.R, d), 0 - z)

\* f * c in float64, c of at most 10 bits: the exact product rounded to 53
\* bits.
MulFloat(f, c) ==
    LET p == MulBig(f.M, c, 0)
        t == BitLen(p) - 53
    IN  IF t <= 0 THEN [M |-> p, E |-> f.E]
        ELSE LET dv == DivBig(p, Pow2(t), <<>>, 0)
             IN  Float64(RoundNearestEven(dv.Q, dv.R, Pow2(t)), f.E + t)

\* int64(f) for f >= 0: the fraction is discarded.
TruncFloat(f) ==
    IF f.E >= 0 THEN BigValue(ShiftLeft(f.M, f.E), 0)
    ELSE BigValue(ShiftRight(f.M, 0 - f.E), 0)

RECURSIVE Pow10(_)
Pow10(k) == IF k = 0 THEN 1 ELSE 10 * Pow10(k - 1)

\* fmt.Sscanf(s, "%f", &cores) followed by int64(cores * 1000): the scan takes
\* an optional sign, the integer digits, an optional "." and the fraction
\* digits; the product and the conversion are float64 operations.
SscanMillis(s) ==
    LET neg   == Len(s) > 0 /\ Head(s) = "-"
        body  == IF Len(s) > 0 /\ Head(s) \in {"-", "+"} THEN Tail(s) ELSE s
        n     == DigitPrefixLen(body)
        rest  == SubSeq(body, n + 1, Len(body))
        hasFr == Len(rest) > 0 /\ Head(rest) = "."
        frac  == IF hasFr THEN Tail(rest) ELSE <<>>
        m     == DigitPrefixLen(frac)
        cores == ParseFloat(DigitsValue(SubSeq(body, 1, n) \o SubSeq(frac, 1, m), 0), Pow10(m))
        v     == TruncFloat(MulFloat(cores, 1000))
    IN  IF n = 0 /\ m = 0 THEN 0 ELSE IF neg THEN 0 - v ELSE v

parseCPUMillis(cpu) ==
    IF Len(cpu) = 0 THEN 0
    ELSE IF HasSuffix(cpu, <<"m">>) THEN SscanInt(TrimSuffix(cpu, <<"m">>))
    ELSE SscanMillis(cpu)

Ki == 1024
Mi == 1048576

\* An int64 byte count v is held as [Hi, Lo] with v = Hi * Mi + Lo and
\* 0 <= Lo < Mi, so that Gi and Ti values stay within TLC's 32-bit integers.
Bytes(hi, lo) == [Hi |-> hi, Lo |-> lo]
BytesPositive(v) == v.Hi > 0 \/ (v.Hi = 0 /\ v.Lo > 0)
BytesGreater(v, w) == v.Hi > w.Hi \/ (v.Hi = w.Hi /\ v.Lo > w.Lo)

parseMemoryBytes(mem) ==
    IF Len(mem) = 0 THEN Bytes(0, 0)
    ELSE IF HasSuffix(mem, <<"K", "i">>)
    THEN LET num == SscanInt(TrimSuffix(mem, <<"K", "i">>))
         IN  Bytes(num \div Ki, (num % Ki) * Ki)
    ELSE IF HasSuffix(mem, <<"M", "i">>)
    THEN Bytes(SscanInt(TrimSuffix(mem, <<"M", "i">>)), 0)
    ELSE IF HasSuffix(mem, <<"G", "i">>)
    THEN Bytes(SscanInt(TrimSuffix(mem, <<"G", "i">>)) * Ki, 0)
    ELSE IF HasSuffix(mem, <<"T", "i">>)
    THEN Bytes(SscanInt(TrimSuffix(mem, <<"T", "i">>)) * Mi, 0)
    ELSE LET num == SscanInt(mem)
         IN  Bytes(num \div Mi, num % Mi)

-----------------------------------------------------------------------------
(* Configuration (config.Config after applyDefaults) *)

ResourceSpec(rc, rm, lc, lm) ==
    [Requests |-> [CPU |-> rc, Memory |-> rm], Limits |-> [CPU |-> lc, Memory |-> lm]]

DefaultResources ==
    ResourceSpec(<<"1", "0", "0", "m">>, <<"1", "2", "8", "M", "i">>,
                 <<"5", "0", "0", "m">>, <<"5", "1", "2", "M", "i">>)

DefaultProfiles ==
    [api    |-> ResourceSpec(<<"1", "0", "0", "m">>, <<"2", "5", "6", "M", "i">>,
                             <<"1", "0", "0", "0", "m">>, <<"1", "G", "i">>),
     worker |-> ResourceSpec(<<"5", "0", "0", "m">>, <<"5", "1", "2", "M", "i">>,
                             <<"2", "0", "0", "0", "m">>, <<"2", "G", "i">>),
     web    |-> ResourceSpec(<<"5", "0", "m">>, <<"1", "2", "8", "M", "i">>,
                             <<"5", "0", "0", "m">>, <<"5", "1", "2", "M", "i">>)]

\* config.Default() with the CI registry and the LLM provider of the run.
DefaultConfig(registry, provider) ==
    [Org         |-> [Name |-> ""],
     Resources   |-> [Defaults |-> DefaultResources, Profiles |-> DefaultProfiles],
     Labels      |-> [Custom |-> EmptyMap],
     Annotations |-> [Custom |-> EmptyMap],
     Security    |-> [PodSecurityContext       |-> [RunAsNonRoot |-> FALSE],
                      ContainerSecurityContext |-> [AllowPrivilegeEscalation |-> FALSE,
                                                    ReadOnlyRootFilesystem   |-> FALSE]],
     Ingress     |-> [Class |-> "nginx", DomainSuffix |-> ".local",
                      TLS |-> [Enabled |-> FALSE, ClusterIssuer |-> ""]],
     ArgoCD      |-> [Project |-> "default",
                      Destination |-> [Server |-> "https://kubernetes.default.svc"],
                      SyncPolicy |-> [Automated |-> [Prune |-> FALSE, SelfHeal |-> FALSE]]],
     CI          |-> [Provider |-> "github-actions", Registry |-> registry],
     LLM         |-> [Provider |-> provider]]

GetResourcesForProfile(cfg, profile) ==
    IF profile \in DOMAIN cfg.Resources.Profiles
    THEN cfg.Resources.Profiles[profile]
    ELSE cfg.Resources.Defaults

(* Configuration layers (runGenerate, config.GlobalConfig) *)

\* The values the workspace file sets, as viper holds them before Load.
WorkspaceLayer(registry, orgName, provider) ==
    [Registry |-> registry, OrgName |-> orgName, LLMProvider |-> provider]

\* config.GlobalConfig as LoadGlobalConfig returns it.
GlobalLayer(namespace, registry, orgName, provider) ==
    [Namespace |-> namespace, Registry |-> registry, OrgName |-> orgName, LLMProvider |-> provider]

DefaultGlobalConfig == GlobalLayer("default", "", "", "")

\* generateFlags.namespace and generateFlags.llmProvider.
FlagLayer(namespace, provider) == [Namespace |-> namespace, LLMProvider |-> provider]

Layers(flags, workspace, global) == [Flags |-> flags, Workspace |-> workspace, Global |-> global]

\* config.Load: the workspace values with applyDefaults on top.
LoadConfig(ws) ==
    [DefaultConfig(ws.Registry, IF ws.LLMProvider = "" THEN "openai" ELSE ws.LLMProvider)
        EXCEPT !.Org.Name = ws.OrgName]

\* Registry and organisation name: the global default fills an empty value.
mergedRegistry(cfg, g) ==
    IF cfg.CI.Registry = "" /\ g.Registry # "" THEN g.Registry ELSE cfg.CI.Registry

mergedOrgName(cfg, g) ==
    IF cfg.Org.Name = "" /\ g.OrgName # "" THEN g.OrgName ELSE cfg.Org.Name

GetEffectiveProvider(g, flagValue) == IF flagValue # "" THEN flagValue ELSE g.LLMProvider

effectiveProvider(cfg, g, flags) ==
    IF GetEffectiveProvider(g, flags.LLMProvider) # ""
    THEN GetEffectiveProvider(g, flags.LLMProvider)
    ELSE IF cfg.LLM.Provider # "" THEN cfg.LLM.Provider
    ELSE "openai"

effectiveNamespace(g, flags) ==
    IF flags.Namespace # "" THEN flags.Namespace
    ELSE IF g.Namespace # "" THEN g.Namespace
    ELSE "default"

\* Nothing but the workspace file sets a value: no flag, no global file.
BaseLayers(o) ==
    Layers(FlagLayer("", ""),
           WorkspaceLayer(o.Config.CI.Registry, o.Config.Org.Name, ""),
           DefaultGlobalConfig)

-----------------------------------------------------------------------------
(* Shared derivation helpers (deployment.go) *)

NameLabel == "app.kubernetes.io/name"

buildLabelsWithAppConfig(a, cfg) ==
    LET base == [k \in {NameLabel, "app.kubernetes.io/managed-by"} |->
                    IF k = NameLabel THEN a.Name ELSE "dorgu"]
        team == IF a.Team # "" THEN MapMerge(base, [k \in {"app.kubernetes.io/team"} |-> a.Team])
                ELSE base
        env  == IF a.Environment # ""
                THEN MapMerge(team, [k \in {"app.kubernetes.io/environment"} |-> a.Environment])
                ELSE team
        org  == MapMerge(env, cfg.Labels.Custom)
    IN  IF ~IsNil(a.AppConfig) THEN MapMerge(org, Deref(a.AppConfig).Labels) ELSE org

\* Returns Nil (no annotations) when the merged map is empty.
buildAnnotationsWithAppConfig(a, cfg) ==
    LET org == cfg.Annotations.Custom
        all == IF ~IsNil(a.AppConfig) THEN MapMerge(org, Deref(a.AppConfig).Annotations) ELSE org
    IN  IF DOMAIN all = {} THEN Nil ELSE Ptr(all)

-----------------------------------------------------------------------------
(* Workload document (GenerateDeployment) *)

\* strings.ToLower on the strings the model uses; a string without an upper
\* case letter is returned as it is.
ToLower(s) ==
    CASE s = "Orders"      -> "orders"
      [] s = "DB_PASSWORD" -> "db_password"
      [] s = "LOG_LEVEL"   -> "log_level"
      [] s = "ApiKey"      -> "apikey"
      [] OTHER             -> s

\* Variant: the literal value is copied before the secret test.
envVars_inlineSecret(a) ==
    [i \in 1..Len(a.EnvVars) |->
        LET e == a.EnvVars[i]
        IN  [Name      |-> e.Name,
             Value     |-> e.Value,
             ValueFrom |-> IF e.Secret
                           THEN Ptr([SecretKeyRef |-> [Name |-> ToLower(a.Name) \o "-secrets",
                                                       Key  |-> ToLower(e.Name)]])
                           ELSE Nil]]

\* The container's env entries; Value "" and ValueFrom nil are omitted from
\* the document (omitempty).
envVars(a) ==
    [i \in 1..Len(a.EnvVars) |->
        LET e == a.EnvVars[i]
        IN  [Name      |-> e.Name,
             Value     |-> IF ~e.Secret /\ e.Value # "" THEN e.Value ELSE "",
             ValueFrom |-> IF e.Secret
                           THEN Ptr([SecretKeyRef |-> [Name |-> ToLower(a.Name) \o "-secrets",
                                                       Key  |-> ToLower(e.Name)]])
                           ELSE Nil]]

containerPorts(a) ==
    [i \in 1..Len(a.Ports) |-> [Index |-> i - 1, ContainerPort |-> a.Ports[i].Port, Protocol |-> "TCP"]]

\* Variant: the memory limit override is dropped.
finalResources_dropLimit(a, resources) ==
    IF ~IsNil(a.AppConfig) /\ ~IsNil(Deref(a.AppConfig).Resources)
    THEN LET res == Deref(Deref(a.AppConfig).Resources)
         IN  [Requests |-> [CPU    |-> IF res.RequestsCPU # <<>> THEN res.RequestsCPU
                                        ELSE resources.Requests.CPU,
                             Memory |-> IF res.RequestsMemory # <<>> THEN res.RequestsMemory
                                        ELSE resources.Requests.Memory],
              Limits   |-> [CPU    |-> IF res.LimitsCPU # <<>> THEN res.LimitsCPU
                                        ELSE resources.Limits.CPU,
                             Memory |-> resources.Limits.Memory]]
    ELSE resources

\* Override resources from app config if present.
finalResources(a, resources) ==
    IF ~IsNil(a.AppConfig) /\ ~IsNil(Deref(a.AppConfig).Resources)
    THEN LET res == Deref(Deref(a.AppConfig).Resources)
         IN  [Requests |-> [CPU    |-> IF res.RequestsCPU # <<>> THEN res.RequestsCPU
                                        ELSE resources.Requests.CPU,
                             Memory |-> IF res.RequestsMemory # <<>> THEN res.RequestsMemory
                                        ELSE resources.Requests.Memory],
              Limits   |-> [CPU    |-> IF res.LimitsCPU # <<>> THEN res.LimitsCPU
                                        ELSE resources.Limits.CPU,
                             Memory |-> IF res.LimitsMemory # <<>> THEN res.LimitsMemory
                                        ELSE resources.Limits.Memory]]
    ELSE resources

Probe(path, port, delay, period) ==
    [Path |-> path, Port |-> port, InitialDelaySeconds |-> delay, PeriodSeconds |-> period,
     TimeoutSeconds |-> 5, FailureThreshold |-> 3]

\* Probes built from the app config health block alone (deployment.go 200-239).
appConfigLiveness(a) ==
    IF ~IsNil(a.AppConfig) /\ ~IsNil(Deref(a.AppConfig).Health)
       /\ Deref(Deref(a.AppConfig).Health).LivenessPath # ""
    THEN LET h == Deref(Deref(a.AppConfig).Health)
         IN  Ptr(Probe(h.LivenessPath, h.LivenessPort,
                       IF h.InitialDelay = 0 THEN 10 ELSE h.InitialDelay,
                       IF h.Period = 0 THEN 10 ELSE h.Period))
    ELSE Nil

appConfigReadiness(a) ==
    IF ~IsNil(a.AppConfig) /\ ~IsNil(Deref(a.AppConfig).Health)
       /\ Deref(Deref(a.AppConfig).Health).ReadinessPath # ""
    THEN LET h == Deref(Deref(a.AppConfig).Health)
         IN  Ptr(Probe(h.ReadinessPath, h.ReadinessPort,
                       IF h.InitialDelay = 0 THEN 5 ELSE h.InitialDelay,
                       IF h.Period = 0 THEN 5 ELSE h.Period))
    ELSE Nil

\* Probe built from analysis.HealthCheck (deployment.go 243-258).
healthCheckProbe(a) ==
    LET hc == Deref(a.HealthCheck)
    IN  Probe(hc.Path, hc.Port,
              IF hc.InitialDelay > 0 THEN hc.InitialDelay ELSE 10,
              IF hc.Period > 0 THEN hc.Period ELSE 10)

\* Fallback to analysis health check if app config didn't specify: the
\* fallback is keyed on the liveness probe only and assigns both probes.
livenessProbe(a) ==
    IF IsNil(appConfigLiveness(a)) /\ ~IsNil(a.HealthCheck)
    THEN Ptr(healthCheckProbe(a))
    ELSE appConfigLiveness(a)

readinessProbe(a) ==
    IF IsNil(appConfigLiveness(a)) /\ ~IsNil(a.HealthCheck)
    THEN Ptr(healthCheckProbe(a))
    ELSE appConfigReadiness(a)

imageName(a, cfg) ==
    IF cfg.CI.Registry = "" THEN a.Name \o ":latest"
    ELSE cfg.CI.Registry \o "/" \o a.Name \o ":latest"

\* Determine replicas - prefer app config scaling.
replicas(a) ==
    IF ~IsNil(a.AppConfig) /\ ~IsNil(Deref(a.AppConfig).Scaling)
       /\ Deref(Deref(a.AppConfig).Scaling).MinReplicas > 0
    THEN Deref(Deref(a.AppConfig).Scaling).MinReplicas
    ELSE IF ~IsNil(a.Scaling) /\ Deref(a.Scaling).MinReplicas > 0
    THEN Deref(a.Scaling).MinReplicas
    ELSE 2

\* The pod's security context: built from literals, cfg is not read.
podSecurityContext(cfg) == [RunAsNonRoot |-> TRUE, SeccompProfile |-> "RuntimeDefault"]

\* Variant: the container's context is read from the security configuration.
containerSecurityContext_fromConfig(cfg) ==
    [AllowPrivilegeEscalation |-> cfg.Security.ContainerSecurityContext.AllowPrivilegeEscalation,
     ReadOnlyRootFilesystem   |-> cfg.Security.ContainerSecurityContext.ReadOnlyRootFilesystem,
     CapabilitiesDrop         |-> <<"ALL">>]

\* The container's security context: built from literals, cfg is not read.
containerSecurityContext(cfg) ==
    [AllowPrivilegeEscalation |-> FALSE,
     ReadOnlyRootFilesystem   |-> TRUE,
     CapabilitiesDrop         |-> <<"ALL">>]

GenerateDeployment(a, namespace, resources, cfg) ==
    [Kind        |-> "Deployment",
     Name        |-> a.Name,
     Namespace   |-> namespace,
     Labels      |-> buildLabelsWithAppConfig(a, cfg),
     Annotations |-> buildAnnotationsWithAppConfig(a, cfg),
     Replicas    |-> replicas(a),
     MatchLabels |-> [k \in {NameLabel} |-> a.Name],
     PodLabels   |-> buildLabelsWithAppConfig(a, cfg),
     PodSecurityContext |-> podSecurityContext(cfg),
     Container   |-> [Name      |-> a.Name,
                      Image     |-> imageName(a, cfg),
                      Ports     |-> containerPorts(a),
                      Env       |-> envVars(a),
                      Resources |-> finalResources(a, resources),
                      LivenessProbe  |-> livenessProbe(a),
                      ReadinessProbe |-> readinessProbe(a),
                      SecurityContext |-> containerSecurityContext(cfg)]]

-----------------------------------------------------------------------------
(* Network-exposure document (GenerateService) *)

GenerateService(a, namespace, cfg) ==
    [Kind        |-> "Service",
     Name        |-> a.Name,
     Namespace   |-> namespace,
     Labels      |-> buildLabelsWithAppConfig(a, cfg),
     Annotations |-> buildAnnotationsWithAppConfig(a, cfg),
     Type        |-> "ClusterIP",
     Selector    |-> [k \in {NameLabel} |-> a.Name],
     Ports       |-> [i \in 1..Len(a.Ports) |->
                        [Index |-> i - 1, Port |-> a.Ports[i].Port,
                         TargetPort |-> a.Ports[i].Port, Protocol |-> "TCP"]]]

-----------------------------------------------------------------------------
(* Endpoint document (GenerateIngress) *)

WellKnownIngressPorts == {80, 8080, 3000, 5000, 8000}

\* Find the HTTP port: the first well-known one, else the first port.
httpPort(ports) ==
    LET hits  == {i \in 1..Len(ports) : ports[i].Port \in WellKnownIngressPorts}
        first == IF hits = {} THEN 80
                 ELSE ports[CHOOSE i \in hits : \A j \in hits : i <= j].Port
    IN  IF Len(ports) > 0 /\ first = 80 THEN ports[1].Port ELSE first

ingressHost(a, cfg) ==
    IF ~IsNil(a.AppConfig) /\ ~IsNil(Deref(a.AppConfig).Ingress)
       /\ Deref(Deref(a.AppConfig).Ingress).Host # ""
    THEN Deref(Deref(a.AppConfig).Ingress).Host
    ELSE a.Name \o cfg.Ingress.DomainSuffix

GenerateIngress(a, namespace, cfg) ==
    LET hasIng  == ~IsNil(a.AppConfig) /\ ~IsNil(Deref(a.AppConfig).Ingress)
        ing     == Deref(Deref(a.AppConfig).Ingress)
        tls     == cfg.Ingress.TLS.Enabled \/ (hasIng /\ ing.TLSEnabled)
        secret  == IF hasIng /\ ing.TLSSecret # "" THEN ing.TLSSecret ELSE a.Name \o "-tls"
        base    == IF IsNil(buildAnnotationsWithAppConfig(a, cfg)) THEN EmptyMap
                   ELSE Deref(buildAnnotationsWithAppConfig(a, cfg))
        annots  == IF tls /\ cfg.Ingress.TLS.ClusterIssuer # ""
                   THEN MapMerge(base, [k \in {"cert-manager.io/cluster-issuer"} |->
                                           cfg.Ingress.TLS.ClusterIssuer])
                   ELSE base
        port    == httpPort(a.Ports)
        paths   == IF hasIng /\ Len(ing.Paths) > 0
                   THEN [i \in 1..Len(ing.Paths) |->
                            [Path |-> ing.Paths[i].Path,
                             PathType |-> IF ing.Paths[i].PathType = "" THEN "Prefix"
                                          ELSE ing.Paths[i].PathType,
                             ServiceName |-> a.Name, PortNumber |-> port]]
                   ELSE <<[Path |-> "/", PathType |-> "Prefix",
                           ServiceName |-> a.Name, PortNumber |-> port]>>
    IN  [Kind        |-> "Ingress",
         Name        |-> a.Name,
         Namespace   |-> namespace,
         Labels      |-> buildLabelsWithAppConfig(a, cfg),
         Annotations |-> annots,
         IngressClassName |-> cfg.Ingress.Class,
         Host        |-> ingressHost(a, cfg),
         Paths       |-> paths,
         TLS         |-> IF tls THEN Ptr([Hosts |-> <<ingressHost(a, cfg)>>, SecretName |-> secret])
                         ELSE Nil]

-----------------------------------------------------------------------------
(* Autoscaling document (GenerateHPA) *)

\* Use app config scaling if available, else analysis.Scaling; the two
\* sources are alternatives (if / else if), each field defaulting on its own.
hpaSource(a) ==
    IF ~IsNil(a.AppConfig) /\ ~IsNil(Deref(a.AppConfig).Scaling)
    THEN Deref(a.AppConfig).Scaling
    ELSE a.Scaling

hpaMinReplicas(a) ==
    IF ~IsNil(hpaSource(a)) /\ Deref(hpaSource(a)).MinReplicas > 0
    THEN Deref(hpaSource(a)).MinReplicas ELSE 2

hpaMaxReplicas(a) ==
    IF ~IsNil(hpaSource(a)) /\ Deref(hpaSource(a)).MaxReplicas > 0
    THEN Deref(hpaSource(a)).MaxReplicas ELSE 10

hpaTargetCPU(a) ==
    IF ~IsNil(hpaSource(a)) /\ Deref(hpaSource(a)).TargetCPU > 0
    THEN Deref(hpaSource(a)).TargetCPU ELSE 70

hpaTargetMemory(a) ==
    IF ~IsNil(hpaSource(a)) /\ Deref(hpaSource(a)).TargetMemory > 0
    THEN Deref(hpaSource(a)).TargetMemory ELSE 0

hpaMetrics(a) ==
    <<[Name |-> "cpu", AverageUtilization |-> hpaTargetCPU(a)]>>
    \o (IF hpaTargetMemory(a) > 0
        THEN <<[Name |-> "memory", AverageUtilization |-> hpaTargetMemory(a)]>>
        ELSE <<>>)

GenerateHPA(a, namespace, cfg) ==
    [Kind        |-> "HorizontalPodAutoscaler",
     Name        |-> a.Name,
     Namespace   |-> namespace,
     Labels      |-> buildLabelsWithAppConfig(a, cfg),
     ScaleTargetRef |-> [Kind |-> "Deployment", Name |-> a.Name],
     MinReplicas |-> hpaMinReplicas(a),
     MaxReplicas |-> hpaMaxReplicas(a),
     Metrics     |-> hpaMetrics(a)]

-----------------------------------------------------------------------------
(* GitOps application document (GenerateArgoCD) *)

\* Variant: the app config's repository is consulted first.
repoURL_appConfigFirst(a) ==
    IF ~IsNil(a.AppConfig) /\ Deref(a.AppConfig).Repository # ""
    THEN Deref(a.AppConfig).Repository
    ELSE IF a.Repository # "" THEN a.Repository
    ELSE "https://github.com/YOUR_ORG/" \o a.Name \o ".git"

repoURL(a) ==
    IF a.Repository # "" THEN a.Repository
    ELSE IF ~IsNil(a.AppConfig) /\ Deref(a.AppConfig).Repository # ""
    THEN Deref(a.AppConfig).Repository
    ELSE "https://github.com/YOUR_ORG/" \o a.Name \o ".git"

GenerateArgoCD(a, namespace, cfg) ==
    [Kind        |-> "Application",
     Name        |-> a.Name,
     Namespace   |-> "argocd",
     Labels      |-> buildLabelsWithAppConfig(a, cfg),
     Project     |-> cfg.ArgoCD.Project,
     Source      |-> [RepoURL |-> repoURL(a), Path |-> "k8s", TargetRevision |-> "HEAD"],
     Destination |-> [Server |-> cfg.ArgoCD.Destination.Server, Namespace |-> namespace],
     SyncPolicy  |-> [Prune    |-> cfg.ArgoCD.SyncPolicy.Automated.Prune,
                      SelfHeal |-> cfg.ArgoCD.SyncPolicy.Automated.SelfHeal,
                      SyncOptions |-> <<"CreateNamespace=true">>]]

-----------------------------------------------------------------------------
(* CI pipeline document (GenerateGitHubActions): the workflow template with  *)
(* its three substitutions.                                                *)

GenerateGitHubActions(a, cfg) ==
    LET registry == IF cfg.CI.Registry = "" THEN "ghcr.io/${{ github.repository_owner }}"
                    ELSE cfg.CI.Registry
    IN  [Kind |-> "Workflow", Registry |-> registry,
         ImageName |-> registry \o "/" \o a.Name, SedPattern |-> a.Name]

-----------------------------------------------------------------------------
(* Free-text persona (generatePersona / generateBasicPersona) *)

\* What one LLM persona call can yield: llm.NewClient fails (no API key,
\* unknown provider), the API call fails, or the provider returns a text.
\* Providers sample with temperature 0.5, so the text is not a function of
\* the request: two texts stand for the possible completions.
LLMFailures == {"noclient", "apierror"}
LLMTexts == {"text1", "text2"}
LLMOutcomes == LLMFailures \cup LLMTexts

formatScalingDetails(a) ==
    LET scaling == IF ~IsNil(a.AppConfig) /\ ~IsNil(Deref(a.AppConfig).Scaling)
                   THEN Deref(a.AppConfig).Scaling ELSE a.Scaling
    IN  IF IsNil(scaling) THEN <<"No auto-scaling configured">>
        ELSE <<"Min", Deref(scaling).MinReplicas, "Max", Deref(scaling).MaxReplicas>>
             \o (IF Deref(scaling).TargetCPU > 0
                 THEN <<"Target CPU", Deref(scaling).TargetCPU>> ELSE <<>>)
             \o (IF Deref(scaling).TargetMemory > 0
                 THEN <<"Target Memory", Deref(scaling).TargetMemory>> ELSE <<>>)

formatHealthCheck(hc) ==
    IF IsNil(hc) THEN "No health check configured." ELSE Deref(hc).Path

generateBasicPersona(a) ==
    [Kind        |-> "BasicPersona",
     Title       |-> a.Name,
     Description |-> IF ~IsNil(a.AppConfig) /\ Deref(a.AppConfig).Description # ""
                     THEN Deref(a.AppConfig).Description
                     ELSE IF a.Description # "" THEN a.Description
                     ELSE "A containerized " \o a.Type \o " application",
     Type        |-> a.Type,
     Ports       |-> a.Ports,
     Profile     |-> a.ResourceProfile,
     Scaling     |-> formatScalingDetails(a),
     Health      |-> formatHealthCheck(a.HealthCheck),
     Team        |-> IF a.Team # "" THEN a.Team ELSE "[PLACEHOLDER]",
     Contact     |-> IF a.Owner # "" THEN a.Owner ELSE "[PLACEHOLDER]",
     Repository  |-> IF a.Repository # "" THEN a.Repository ELSE "[PLACEHOLDER]"]

\* generatePersona's text when the call succeeds.
llmPersona(a, text) == [Kind |-> "LLMPersona", Title |-> a.Name, Text |-> text]

\* Variant: the fallback document carries a per-call stamp.
personaDocument_stamped(a, llm) ==
    IF llm \in LLMFailures
    THEN [generateBasicPersona(a) EXCEPT !.Description = IF genCalls = 0 THEN "first" ELSE "later"]
    ELSE llmPersona(a, llm)

\* Generate's persona step: the LLM text, or the basic persona on any error.
personaDocument(a, llm) ==
    IF llm \in LLMFailures THEN generateBasicPersona(a) ELSE llmPersona(a, llm)

-----------------------------------------------------------------------------
(* Structured persona (GeneratePersonaYAML) *)

writeResources(a, cfg) ==
    LET resources == GetResourcesForProfile(cfg, a.ResourceProfile)
        over      == ~IsNil(a.AppConfig) /\ ~IsNil(Deref(a.AppConfig).Resources)
        r         == Deref(Deref(a.AppConfig).Resources)
    IN  [Requests |-> [CPU    |-> IF over /\ r.RequestsCPU # <<>> THEN r.RequestsCPU
                                  ELSE resources.Requests.CPU,
                       Memory |-> IF over /\ r.RequestsMemory # <<>> THEN r.RequestsMemory
                                  ELSE resources.Requests.Memory],
         Limits   |-> [CPU    |-> IF over /\ r.LimitsCPU # <<>> THEN r.LimitsCPU
                                  ELSE resources.Limits.CPU,
                       Memory |-> IF over /\ r.LimitsMemory # <<>> THEN r.LimitsMemory
                                  ELSE resources.Limits.Memory],
         Profile  |-> IF a.ResourceProfile = "" THEN "standard" ELSE a.ResourceProfile]

writeScaling(a) ==
    LET scaling == IF ~IsNil(a.AppConfig) /\ ~IsNil(Deref(a.AppConfig).Scaling)
                   THEN Deref(a.AppConfig).Scaling ELSE a.Scaling
    IN  IF IsNil(scaling) THEN Nil
        ELSE Ptr([MinReplicas  |-> Deref(scaling).MinReplicas,
                  MaxReplicas  |-> Deref(scaling).MaxReplicas,
                  TargetCPU    |-> Deref(scaling).TargetCPU,
                  TargetMemory |-> Deref(scaling).TargetMemory])

\* Prefer app config health, fall back to analysis health check; readiness
\* defaults to the liveness path.
writeHealth(a) ==
    LET over  == ~IsNil(a.AppConfig) /\ ~IsNil(Deref(a.AppConfig).Health)
        h     == Deref(Deref(a.AppConfig).Health)
        live0 == IF over THEN h.LivenessPath ELSE ""
        rdy0  == IF over THEN h.ReadinessPath ELSE ""
        port0 == IF over THEN (IF h.LivenessPort > 0 THEN h.LivenessPort
                               ELSE IF h.ReadinessPort > 0 THEN h.ReadinessPort ELSE 0)
                 ELSE 0
        fall  == live0 = "" /\ ~IsNil(a.HealthCheck)
        live  == IF fall THEN Deref(a.HealthCheck).Path ELSE live0
        port  == IF fall THEN Deref(a.HealthCheck).Port ELSE port0
        rdy   == IF rdy0 = "" THEN live ELSE rdy0
    IN  IF live = "" /\ rdy = "" THEN Nil
        ELSE Ptr([LivenessPath |-> live, ReadinessPath |-> rdy, Port |-> port])

writePolicies(a, cfg) ==
    [RunAsNonRoot             |-> cfg.Security.PodSecurityContext.RunAsNonRoot,
     ReadOnlyRootFilesystem   |-> cfg.Security.ContainerSecurityContext.ReadOnlyRootFilesystem,
     AllowPrivilegeEscalation |-> cfg.Security.ContainerSecurityContext.AllowPrivilegeEscalation]

\* An empty application name is the one error of GeneratePersonaYAML.
personaYAMLFails(a) == a.Name = ""

GeneratePersonaYAML(a, namespace, cfg) ==
    [Kind       |-> "ApplicationPersona",
     Name       |-> a.Name,
     Namespace  |-> IF namespace = "" THEN "default" ELSE namespace,
     Type       |-> IF a.Type = "" THEN "api" ELSE a.Type,
     Resources  |-> writeResources(a, cfg),
     Scaling    |-> writeScaling(a),
     Health     |-> writeHealth(a),
     Ports      |-> a.Ports,
     Repository |-> a.Repository,
     Policies   |-> writePolicies(a, cfg)]

-----------------------------------------------------------------------------
(* Orchestration (Generate) *)

File(path, content) == [Path |-> path, Content |-> content]

HTTPPorts == {80, 443, 8080, 3000, 5000, 8000}

\* Variant: without the final fallback to any port.
hasHTTPPort_noFallback(ports) ==
    \E i \in 1..Len(ports) :
        ports[i].Port \in HTTPPorts \/ ports[i].Purpose \in {"HTTP", "HTTP API"}

\* hasHTTPPort: a well-known port or an HTTP purpose, else any port at all.
hasHTTPPort(ports) ==
    \/ \E i \in 1..Len(ports) :
          ports[i].Port \in HTTPPorts \/ ports[i].Purpose \in {"HTTP", "HTTP API"}
    \/ Len(ports) > 0

\* Variant: the structured persona's error is returned to the caller.
GenerateError_personaFatal(a, o) ==
    IF ~o.SkipPersona /\ personaYAMLFails(a) THEN Ptr("persona") ELSE Nil

\* Every error return of Generate forwards a toYAML error of a generator;
\* the manifests hold only strings, integers, booleans and string maps, which
\* always serialize, so no call returns one.
GenerateError(a, o) == Nil

networkFiles(a, o) ==
    IF Len(a.Ports) > 0
    THEN <<File("service.yaml", GenerateService(a, o.Namespace, o.Config))>>
         \o (IF hasHTTPPort(a.Ports)
             THEN <<File("ingress.yaml", GenerateIngress(a, o.Namespace, o.Config))>>
             ELSE <<>>)
    ELSE <<>>

\* Variant: the app config's scaling block also triggers the autoscaler.
hpaFiles_appConfig(a, o) ==
    IF ~IsNil(a.Scaling) \/ (~IsNil(a.AppConfig) /\ ~IsNil(Deref(a.AppConfig).Scaling))
    THEN <<File("hpa.yaml", GenerateHPA(a, o.Namespace, o.Config))>> ELSE <<>>

hpaFiles(a, o) ==
    IF ~IsNil(a.Scaling)
    THEN <<File("hpa.yaml", GenerateHPA(a, o.Namespace, o.Config))>> ELSE <<>>

argoCDFiles(a, o) ==
    IF ~o.SkipArgoCD
    THEN <<File("argocd/application.yaml", GenerateArgoCD(a, o.Namespace, o.Config))>>
    ELSE <<>>

\* Variant: the workflow is nested inside the ArgoCD block.
ciFiles_coupled(a, o) ==
    IF ~o.SkipArgoCD /\ ~o.SkipCI
    THEN <<File("../.github/workflows/deploy.yaml", GenerateGitHubActions(a, o.Config))>>
    ELSE <<>>

ciFiles(a, o) ==
    IF ~o.SkipCI
    THEN <<File("../.github/workflows/deploy.yaml", GenerateGitHubActions(a, o.Config))>>
    ELSE <<>>

\* Variant: the structured persona is appended before the free-text one.
personaFiles_swapped(a, o, llm) ==
    IF o.SkipPersona THEN <<>>
    ELSE (IF personaYAMLFails(a) THEN <<>>
          ELSE <<File("persona.yaml", GeneratePersonaYAML(a, o.Namespace, o.Config))>>)
         \o <<File("../PERSONA.md", personaDocument(a, llm))>>

personaFiles(a, o, llm) ==
    IF o.SkipPersona THEN <<>>
    ELSE <<File("../PERSONA.md", personaDocument(a, llm))>>
         \o (IF personaYAMLFails(a) THEN <<>>
             ELSE <<File("persona.yaml", GeneratePersonaYAML(a, o.Namespace, o.Config))>>)

GenerateFiles(a, o, llm) ==
    LET resources == GetResourcesForProfile(o.Config, a.ResourceProfile)
    IN  <<File("deployment.yaml", GenerateDeployment(a, o.Namespace, resources, o.Config))>>
        \o networkFiles(a, o)
        \o hpaFiles(a, o)
        \o argoCDFiles(a, o)
        \o ciFiles(a, o)
        \o personaFiles(a, o, llm)

-----------------------------------------------------------------------------
(* Post-generation validation (ValidateGenerated) *)

SeverityError == "error"
SeverityWarning == "warning"
SeverityInfo == "info"

Issue(sev, cat, file, msg) == [Severity |-> sev, Category |-> cat, File |-> file, Message |-> msg]

validateImagePlaceholder(a, o) ==
    (IF o.Config.CI.Registry = ""
     THEN <<Issue(SeverityWarning, "image", "deployment.yaml", "Container image is placeholder")>>
     ELSE <<>>)
    \o <<Issue(SeverityInfo, "image", "deployment.yaml", "Image uses ':latest' tag")>>

\* The resource spec the bounds rule compares.
validateResources(a, o) ==
    LET resources == GetResourcesForProfile(o.Config, a.ResourceProfile)
        over      == ~IsNil(a.AppConfig) /\ ~IsNil(Deref(a.AppConfig).Resources)
        r         == Deref(Deref(a.AppConfig).Resources)
    IN  [Requests |-> [CPU    |-> IF over /\ r.RequestsCPU # <<>> THEN r.RequestsCPU
                                  ELSE resources.Requests.CPU,
                       Memory |-> IF over /\ r.RequestsMemory # <<>> THEN r.RequestsMemory
                                  ELSE resources.Requests.Memory],
         Limits   |-> [CPU    |-> IF over /\ r.LimitsCPU # <<>> THEN r.LimitsCPU
                                  ELSE resources.Limits.CPU,
                       Memory |-> IF over /\ r.LimitsMemory # <<>> THEN r.LimitsMemory
                                  ELSE resources.Limits.Memory]]

validateResourceRequestsVsLimits(a, o) ==
    LET resources == validateResources(a, o)
        reqCPU == parseCPUMillis(resources.Requests.CPU)
        limCPU == parseCPUMillis(resources.Limits.CPU)
        reqMem == parseMemoryBytes(resources.Requests.Memory)
        limMem == parseMemoryBytes(resources.Limits.Memory)
    IN  (IF reqCPU > 0 /\ limCPU > 0 /\ reqCPU > limCPU
         THEN <<Issue(SeverityError, "resources", "deployment.yaml", "CPU request > limit")>>
         ELSE <<>>)
        \o (IF BytesPositive(reqMem) /\ BytesPositive(limMem) /\ BytesGreater(reqMem, limMem)
            THEN <<Issue(SeverityError, "resources", "deployment.yaml", "memory request > limit")>>
            ELSE <<>>)

\* Variant: the port set is built and consulted also for an empty ports list.
validateServicePortMatch_anyPorts(a) ==
    LET portSet == {a.Ports[i].Port : i \in 1..Len(a.Ports)}
    IN  IF ~IsNil(a.HealthCheck) /\ Deref(a.HealthCheck).Port \notin portSet
        THEN <<Issue(SeverityWarning, "ports", "deployment.yaml",
                     "Health check port does not match any container port")>>
        ELSE <<>>

validateServicePortMatch(a) ==
    IF Len(a.Ports) = 0 THEN <<>>
    ELSE LET portSet == {a.Ports[i].Port : i \in 1..Len(a.Ports)}
         IN  IF ~IsNil(a.HealthCheck) /\ Deref(a.HealthCheck).Port \notin portSet
             THEN <<Issue(SeverityWarning, "ports", "deployment.yaml",
                          "Health check port does not match any container port")>>
             ELSE <<>>

validateHPAMinMax(a) ==
    LET scaling == IF ~IsNil(a.AppConfig) /\ ~IsNil(Deref(a.AppConfig).Scaling)
                   THEN Deref(a.AppConfig).Scaling ELSE a.Scaling
    IN  IF IsNil(scaling) THEN <<>>
        ELSE IF Deref(scaling).MinReplicas > Deref(scaling).MaxReplicas
        THEN <<Issue(SeverityError, "scaling", "hpa.yaml", "HPA minReplicas > maxReplicas")>>
        ELSE <<>>

validateIngressHost(a, o) ==
    LET host == IF ~IsNil(a.AppConfig) /\ ~IsNil(Deref(a.AppConfig).Ingress)
                   /\ Deref(Deref(a.AppConfig).Ingress).Host # ""
                THEN Deref(Deref(a.AppConfig).Ingress).Host
                ELSE a.Name \o o.Config.Ingress.DomainSuffix
    IN  IF host = ""
        THEN <<Issue(SeverityWarning, "ingress", "ingress.yaml", "Ingress host is empty")>>
        ELSE <<>>

validateHealthProbes(a) ==
    LET hasHealth == (~IsNil(a.AppConfig) /\ ~IsNil(Deref(a.AppConfig).Health))
                     \/ ~IsNil(a.HealthCheck)
    IN  IF ~hasHealth
        THEN <<Issue(SeverityWarning, "health", "deployment.yaml", "No health probes configured")>>
        ELSE <<>>

validateMissingRequiredFields(a) ==
    (IF a.Name = ""
     THEN <<Issue(SeverityError, "metadata", "deployment.yaml",
                  "Missing required field: application name")>>
     ELSE <<>>)
    \o (IF a.Repository = ""
        THEN <<Issue(SeverityInfo, "metadata", "argocd/application.yaml", "Repository URL not set")>>
        ELSE <<>>)

\* The rules in the order ValidateGenerated runs them.
collectIssues(a, o) ==
    validateImagePlaceholder(a, o)
    \o validateResourceRequestsVsLimits(a, o)
    \o validateServicePortMatch(a)
    \o validateHPAMinMax(a)
    \o validateIngressHost(a, o)
    \o validateHealthProbes(a)
    \o validateMissingRequiredFields(a)

countSeverity(issues, sev) == Cardinality({i \in 1..Len(issues) : issues[i].Severity = sev})

\* Variant: only the first issue decides.
computePassed_firstOnly(issues) == Len(issues) = 0 \/ issues[1].Severity # SeverityError

\* Passed starts true and is cleared by the first error-severity issue.
computePassed(issues) == ~\E i \in 1..Len(issues) : issues[i].Severity = SeverityError

\* Variant: every severity is listed, also with a count of zero.
computeSummary_unfiltered(issues) ==
    IF Len(issues) = 0 THEN [AllPassed |-> TRUE, Parts |-> <<>>]
    ELSE [AllPassed |-> FALSE,
          Parts |-> <<[N |-> countSeverity(issues, SeverityError), Label |-> "error(s)"],
                      [N |-> countSeverity(issues, SeverityWarning), Label |-> "warning(s)"],
                      [N |-> countSeverity(issues, SeverityInfo), Label |-> "info(s)"]>>]

\* The summary line: its parts are the "%d error(s)" style clauses in order.
computeSummary(issues) ==
    IF Len(issues) = 0 THEN [AllPassed |-> TRUE, Parts |-> <<>>]
    ELSE [AllPassed |-> FALSE,
          Parts |-> (IF countSeverity(issues, SeverityError) > 0
                     THEN <<[N |-> countSeverity(issues, SeverityError), Label |-> "error(s)"]>>
                     ELSE <<>>)
                    \o (IF countSeverity(issues, SeverityWarning) > 0
                        THEN <<[N |-> countSeverity(issues, SeverityWarning), Label |-> "warning(s)"]>>
                        ELSE <<>>)
                    \o (IF countSeverity(issues, SeverityInfo) > 0
                        THEN <<[N |-> countSeverity(issues, SeverityInfo), Label |-> "info(s)"]>>
                        ELSE <<>>)]

\* files is accepted and never read by any rule.
ValidateGenerated(a, fs, o) ==
    LET issues == collectIssues(a, o)
    IN  [Issues |-> issues, Passed |-> computePassed(issues), Summary |-> computeSummary(issues)]

-----------------------------------------------------------------------------
(* Operator client (ws.Client): the fields of the client, the connections   *)
(* it has dialled and the messages of the protocol.                         *)

MaxDials == 2
MaxTime == 2

Topics == {"personas", "cluster"}
Handlers == {"h1", "h2"}

\* NewClient: no connection, empty handler and pending-response maps, done open.
NewClient ==
    [conn |-> Nil, connected |-> FALSE, done |-> "open", handlers |-> EmptyMap,
     responses |-> EmptyMap]

\* c.connected under the read lock.
IsConnected(c) == c.connected

Message(type, topic, requestID) == [Type |-> type, Topic |-> topic, RequestID |-> requestID]

\* What the operator may put on a connection; RequestID 0 is the empty string.
ServerMessages ==
    {Message(ty, "personas", id) : ty \in {"response", "error"}, id \in 1..MaxTime}
        \cup {Message("event", t, 0) : t \in Topics}

\* A goroutine between two calls of the client: the call it made last, its
\* request id, the topic it named and the response it was given.
Returned(op, err, wasConnected, wrote) ==
    [op |-> op, pc |-> "returned", err |-> err, id |-> 0, topic |-> "", resp |-> Nil,
     wasConnected |-> wasConnected, wrote |-> wrote]

\* send: the guard of the write, and what WriteMessage can answer on the
\* connection c.conn points to.
sendRefused(c) == ~c.connected \/ IsNil(c.conn)

writeErrors(c, cs) ==
    CASE cs[Deref(c.conn)].net = "open" -> {""}
      [] cs[Deref(c.conn)].net = "lost" -> {"", "write: broken pipe"}
      [] OTHER -> {"use of closed network connection"}

\* conn.Close() on connection n.
closeConn(cs, n) == [cs EXCEPT ![n].net = IF @ = "open" THEN "closed" ELSE @]

\* handleMessage: the channel registered under the message's id gets it
\* unless it is full; g is the goroutine who, and what its channel holds after.
deliver(g, who, responses, msg) ==
    IF /\ msg.RequestID # 0
       /\ msg.RequestID \in DOMAIN responses
       /\ responses[msg.RequestID] = who
       /\ IsNil(g.resp)
    THEN [g EXCEPT !.resp = Ptr(msg)]
    ELSE g

\* handleMessage with the handlers of every topic started for an event.
dispatch_everyTopic(handlers, msg) ==
    IF msg.Type = "event" THEN {handlers[t] : t \in DOMAIN handlers} ELSE {}

\* handleMessage: the handlers started for the message.
dispatch(handlers, msg) ==
    IF msg.Type = "event" /\ msg.Topic \in DOMAIN handlers THEN {handlers[msg.Topic]} ELSE {}

MapDelete(m, k) == [x \in (DOMAIN m) \ {k} |-> m[x]]

-----------------------------------------------------------------------------
(* Inputs: the values of types.AppAnalysis and generator.Options the runs   *)
(* are started with.                                                       *)

Analysis(name, ports, hc, scaling, profile, appConfig, repository) ==
    [Name |-> name, Type |-> "api", Description |-> "", Ports |-> ports, HealthCheck |-> hc, Scaling |-> scaling,
     ResourceProfile |-> profile, AppConfig |-> appConfig, Team |-> "", Owner |-> "",
     Environment |-> "", EnvVars |-> <<>>,
     Repository |-> repository]

AppConfigContext(resources, scaling, health) ==
    [Resources |-> resources, Scaling |-> scaling, Health |-> health, Labels |-> EmptyMap,
     Annotations |-> EmptyMap, Ingress |-> Nil, Repository |-> "", Description |-> ""]

Options(skipArgoCD, skipCI, skipPersona, registry) ==
    [Namespace |-> "default", SkipArgoCD |-> skipArgoCD, SkipCI |-> skipCI,
     SkipPersona |-> skipPersona, Config |-> DefaultConfig(registry, "openai")]

ScalingConfig(min, max, cpu, mem) ==
    [MinReplicas |-> min, MaxReplicas |-> max, TargetCPU |-> cpu, TargetMemory |-> mem]

HealthCheck(path, port) == [Path |-> path, Port |-> port, InitialDelay |-> 0, Period |-> 0]

HealthContext(lpath, lport, rpath, rport) ==
    [LivenessPath |-> lpath, LivenessPort |-> lport, ReadinessPath |-> rpath,
     ReadinessPort |-> rport, InitialDelay |-> 0, Period |-> 0]

Names == {"", "orders"}

PortLists ==
    LET PortChoices == {[Port |-> 8080, Protocol |-> "TCP", Purpose |-> "HTTP API"],
                        [Port |-> 9090, Protocol |-> "TCP", Purpose |-> "metrics"]}
    IN  UNION {[1..n -> PortChoices] : n \in 0..MaxPorts}

DefaultScaling == ScalingConfig(2, 10, 70, 0)

\* An app config that enables ingress and sets scaling.
IngressAppConfig ==
    [AppConfigContext(Nil, Ptr(ScalingConfig(3, 6, 60, 0)), Nil) EXCEPT
        !.Ingress = Ptr([Enabled |-> TRUE, Host |-> "orders.acme.io", Paths |-> <<>>,
                         TLSEnabled |-> FALSE, TLSSecret |-> ""])]

\* Documents and options vary.
GenAnalyses ==
    {Analysis(n, p, hc, sc, "api", ac, "") :
        n \in Names, p \in PortLists,
        hc \in {Nil, Ptr(HealthCheck("/health", 8080))},
        sc \in {Nil, Ptr(DefaultScaling)},
        ac \in {Nil, Ptr(IngressAppConfig)}}

GenOptions ==
    {Options(sa, sc, sp, reg) :
        sa \in BOOLEAN, sc \in BOOLEAN, sp \in BOOLEAN, reg \in {"", "ghcr.io/acme"}}

\* Resource profile and resource overrides vary.
ResAnalyses ==
    LET QuantityCPU == {<<>>, <<"7", "5", "0", "m">>, <<"2">>}
        QuantityMemory == {<<>>, <<"6", "4", "M", "i">>, <<"2", "G", "i">>}
        ResourceOverrides ==
            {[RequestsCPU |-> rc, RequestsMemory |-> rm, LimitsCPU |-> lc, LimitsMemory |-> lm] :
                rc \in QuantityCPU, rm \in QuantityMemory,
                lc \in QuantityCPU, lm \in QuantityMemory}
    IN  {Analysis("orders", <<>>, Nil, Ptr(DefaultScaling), prof, ac, "") :
            prof \in {"api", "worker", "web", "batch", ""},
            ac \in {Nil, Ptr(AppConfigContext(Nil, Nil, Nil))}
                   \cup {Ptr(AppConfigContext(Ptr(r), Nil, Nil)) : r \in ResourceOverrides}}

\* Requests and limits of both resources vary over the forms of quantity.
BoundsAnalyses ==
    LET BoundsCPU == {<<"5", "0", "0", "m">>, <<"2">>, <<"2", ".", "0", "1">>,
                      <<"2", "0", "0", "9", "m">>, <<"0">>}
        BoundsMemory == {<<"6", "4", "M", "i">>, <<"2", "G", "i">>, <<"1", "K", "i">>,
                         <<"2", "0", "4", "8">>}
    IN  {Analysis("orders", <<>>, Nil, Nil, "api",
                  Ptr(AppConfigContext(Ptr([RequestsCPU |-> rc, RequestsMemory |-> rm,
                                            LimitsCPU |-> lc, LimitsMemory |-> lm]), Nil, Nil)), "") :
            rc \in BoundsCPU \cup {<<>>}, rm \in BoundsMemory \cup {<<>>},
            lc \in BoundsCPU, lm \in BoundsMemory}

\* Application name and environment variables vary.
EnvVar(name, value, secret) == [Name |-> name, Value |-> value, Secret |-> secret]

MaxEnv == 2

EnvAnalyses ==
    LET EnvChoices == {EnvVar("DB_PASSWORD", "hunter2", TRUE), EnvVar("ApiKey", "", TRUE),
                       EnvVar("LOG_LEVEL", "debug", FALSE), EnvVar("log_file", "", FALSE)}
    IN  {[Analysis(n, <<>>, Nil, Nil, "api", Nil, "") EXCEPT !.EnvVars = ev] :
            n \in {"orders", "Orders"},
            ev \in UNION {[1..k -> EnvChoices] : k \in 0..MaxEnv}}

\* Security settings of the configuration vary, next to the applications'
\* own inputs.
SecOptions ==
    LET SecurityConfigs ==
            {[PodSecurityContext       |-> [RunAsNonRoot |-> r],
              ContainerSecurityContext |-> [AllowPrivilegeEscalation |-> e,
                                            ReadOnlyRootFilesystem |-> f]] :
                r \in BOOLEAN, e \in BOOLEAN, f \in BOOLEAN}
    IN  {[Options(TRUE, TRUE, sp, "") EXCEPT !.Config.Security = sec] :
            sp \in BOOLEAN, sec \in SecurityConfigs}

SecAnalyses ==
    {Analysis("orders", p, hc, sc, prof, ac, "") :
        p \in {<<>>, <<[Port |-> 8080, Protocol |-> "TCP", Purpose |-> "HTTP API"]>>},
        hc \in {Nil, Ptr(HealthCheck("/health", 8080))},
        sc \in {Nil, Ptr(DefaultScaling)},
        prof \in {"api", "batch"},
        ac \in {Nil, Ptr(IngressAppConfig),
                Ptr(AppConfigContext(Ptr([RequestsCPU |-> <<"2">>, RequestsMemory |-> <<>>,
                                          LimitsCPU |-> <<>>, LimitsMemory |-> <<"2", "G", "i">>]),
                                     Nil, Ptr(HealthContext("/live", 8081, "/ready", 8082))))}}

\* Flags, workspace file and global file vary in the settings that several
\* layers provide.
WorkspaceLayers ==
    {WorkspaceLayer(r, o, p) :
        r \in {"", "ghcr.io/acme"}, o \in {"", "acme"}, p \in {"", "anthropic"}}

LayerOptions == {[Options(FALSE, FALSE, TRUE, "") EXCEPT !.Config = LoadConfig(w)] : w \in WorkspaceLayers}

\* The layers whose workspace file loads as the configuration of o.
LayersOf(o) ==
    LET FlagLayers == {FlagLayer(n, p) : n \in {"", "prod"}, p \in {"", "ollama"}}
        GlobalLayers ==
            {GlobalLayer(n, r, org, p) :
                n \in {"", "default", "team-a"}, r \in {"", "docker.io/globex"},
                org \in {"", "globex"}, p \in {"", "gemini"}}
    IN  {Layers(f, w, g) : f \in FlagLayers, g \in GlobalLayers,
                           w \in {x \in WorkspaceLayers : LoadConfig(x) = o.Config}}

LayerAnalyses ==
    {Analysis("orders", <<[Port |-> 8080, Protocol |-> "TCP", Purpose |-> "HTTP API"]>>,
              Nil, Nil, "api", Nil, "")}

\* Scaling of the analysis and of the app config vary.
ScaleAnalyses ==
    LET ScalingConfigs ==
            {ScalingConfig(min, max, cpu, mem) :
                min \in {0, 3, 30}, max \in {0, 20}, cpu \in {0, 50}, mem \in {0, 80}}
    IN  {Analysis("orders", <<>>, Nil, sc, "api", ac, "") :
            sc \in {Nil} \cup {Ptr(c) : c \in ScalingConfigs},
            ac \in {Nil, Ptr(AppConfigContext(Nil, Nil, Nil))}
                   \cup {Ptr(AppConfigContext(Nil, Ptr(c), Nil)) : c \in ScalingConfigs}}

\* Health check of the analysis and health block of the app config vary.
HealthAnalyses ==
    LET HealthContexts ==
            {HealthContext(lp, lport, rp, rport) :
                lp \in {"", "/live"}, lport \in {0, 8081},
                rp \in {"", "/ready"}, rport \in {0, 8082}}
    IN  {Analysis("orders", p, hc, Nil, "api", ac, "") :
            p \in {<<>>, <<[Port |-> 8080, Protocol |-> "TCP", Purpose |-> "HTTP API"]>>},
            hc \in {Nil, Ptr(HealthCheck("/health", 8080)), Ptr(HealthCheck("/healthz", 9999)),
                    Ptr(HealthCheck("/live", 0))},
            ac \in {Nil, Ptr(AppConfigContext(Nil, Nil, Nil))}
                   \cup {Ptr(AppConfigContext(Nil, Nil, Ptr(h))) : h \in HealthContexts}}

\* Inputs of every rule of the validator vary together.
ValAnalyses ==
    {Analysis(n, p, hc, sc, "api", ac, repo) :
        n \in Names,
        p \in {<<>>, <<[Port |-> 8080, Protocol |-> "TCP", Purpose |-> "HTTP API"]>>},
        hc \in {Nil, Ptr(HealthCheck("/health", 8080)), Ptr(HealthCheck("/healthz", 9999))},
        sc \in {Nil, Ptr(DefaultScaling), Ptr(ScalingConfig(30, 20, 0, 0))},
        ac \in {Nil,
                Ptr(AppConfigContext(Ptr([RequestsCPU |-> <<"2">>, RequestsMemory |-> <<>>,
                                          LimitsCPU |-> <<"7", "5", "0", "m">>,
                                          LimitsMemory |-> <<>>]), Nil, Nil)),
                Ptr(AppConfigContext(Ptr([RequestsCPU |-> <<>>, RequestsMemory |-> <<"2", "G", "i">>,
                                          LimitsCPU |-> <<>>,
                                          LimitsMemory |-> <<"6", "4", "M", "i">>]), Nil, Nil))},
        repo \in {"", "https://github.com/acme/orders.git"}}

-----------------------------------------------------------------------------
(* State machine *)

NoResult == [Issues |-> <<>>, Passed |-> TRUE, Summary |-> [AllPassed |-> TRUE, Parts |-> <<>>]]

NoCall == Returned("none", "", FALSE, FALSE)

\* Before the command runs: nothing generated, a client just constructed.
Fresh ==
    /\ effective = Nil
    /\ files = <<>>
    /\ prevFiles = <<>>
    /\ genErr = Nil
    /\ genCalls = 0
    /\ llmOutcome = "none"
    /\ prevLLMOutcome = "none"
    /\ result = NoResult
    /\ validated = FALSE
    /\ client = NewClient
    /\ conns = <<>>
    /\ call = NoCall
    /\ call2 = NoCall
    /\ now = 1
    /\ invoked = [msg |-> Message("none", "", 0), started |-> {}]

\* One process runs one command. The commands that talk to the operator,
\* watch and sync, generate nothing.
InitClient(commands) ==
    /\ Fresh
    /\ command \in commands
    /\ analysis = CHOOSE a \in LayerAnalyses : TRUE
    /\ opts = Options(TRUE, TRUE, TRUE, "")
    /\ layers = BaseLayers(opts)

\* The generate command on the analyses and options given.
InitWith(analyses, options) ==
    /\ Fresh
    /\ command = "generate"
    /\ analysis \in analyses
    /\ opts \in options
    /\ layers = BaseLayers(opts)

\* The generate command with flags, workspace file and global file varying.
InitLayers ==
    /\ Fresh
    /\ command = "generate"
    /\ analysis \in LayerAnalyses
    /\ opts \in LayerOptions
    /\ layers \in LayersOf(opts)

genVars == <<analysis, opts, files, prevFiles, genErr, genCalls, llmOutcome, prevLLMOutcome,
             result, validated, layers, effective>>

wsVars == <<client, conns, call, call2, now, invoked>>

\* runGenerate up to the construction of genOpts: the settings that several
\* layers provide are resolved, cfg is completed in place and the resolved
\* namespace goes into genOpts.
ResolveConfig ==
    /\ command = "generate"
    /\ IsNil(effective)
    /\ LET cfg == opts.Config
           g   == layers.Global
           f   == layers.Flags
       IN  /\ effective' = Ptr([Namespace |-> effectiveNamespace(g, f),
                                 Registry  |-> mergedRegistry(cfg, g),
                                 OrgName   |-> mergedOrgName(cfg, g),
                                 Provider  |-> effectiveProvider(cfg, g, f)])
           /\ opts' = [opts EXCEPT !.Namespace = effectiveNamespace(g, f),
                                    !.Config.CI.Registry = mergedRegistry(cfg, g),
                                    !.Config.Org.Name = mergedOrgName(cfg, g)]
    /\ UNCHANGED <<analysis, files, prevFiles, genErr, genCalls, llmOutcome, prevLLMOutcome,
                   result, validated, layers, command>>
    /\ UNCHANGED wsVars

\* files, err := generator.Generate(analysis, genOpts)
Generate ==
    /\ ~IsNil(effective)
    /\ genCalls < MaxCalls
    /\ \E llm \in (IF opts.SkipPersona THEN {"unused"} ELSE LLMOutcomes) :
          /\ llmOutcome' = llm
          /\ genErr' = GenerateError(analysis, opts)
          /\ files' = IF IsNil(GenerateError(analysis, opts))
                      THEN GenerateFiles(analysis, opts, llm) ELSE <<>>
    /\ prevFiles' = files
    /\ prevLLMOutcome' = llmOutcome
    /\ genCalls' = genCalls + 1
    /\ UNCHANGED <<analysis, opts, result, validated, layers, effective, command>>
    /\ UNCHANGED wsVars

\* validation := generator.ValidateGenerated(analysis, files, genOpts)
Validate ==
    /\ genCalls > 0
    /\ IsNil(genErr)
    /\ result' = ValidateGenerated(analysis, files, opts)
    /\ validated' = TRUE
    /\ UNCHANGED <<analysis, opts, files, prevFiles, genErr, genCalls, llmOutcome, prevLLMOutcome,
                   layers, effective, command>>
    /\ UNCHANGED wsVars

\* The process runs a command of the client and has not panicked.
Running == command \in {"watch", "sync"} /\ call.pc # "panicked"

\* The caller may start a call of the client.
Callable == Running /\ call.pc = "returned"

\* Client.Connect: a connected client answers nil at once; otherwise the dial
\* succeeds or fails, and a success stores the connection and starts its
\* read pump.
Connect ==
    /\ Callable
    /\ \/ /\ client.connected
          /\ call' = Returned("Connect", "", TRUE, FALSE)
          /\ UNCHANGED <<client, conns>>
       \/ /\ ~client.connected
          /\ call' = Returned("Connect", "failed to connect", FALSE, FALSE)
          /\ UNCHANGED <<client, conns>>
       \/ /\ ~client.connected
          /\ Len(conns) < MaxDials
          /\ conns' = Append(conns, [net |-> "open", pump |-> "select", reading |-> 0])
          /\ client' = [client EXCEPT !.conn = Ptr(Len(conns) + 1), !.connected = TRUE]
          /\ call' = Returned("Connect", "", FALSE, FALSE)
    /\ UNCHANGED <<call2, now, invoked, command>>
    /\ UNCHANGED genVars

\* Client.Close: a client that is not connected answers nil; otherwise done is
\* closed (closing a closed channel panics), connected is cleared and the
\* connection is closed.
Close ==
    /\ Callable
    /\ \/ /\ ~client.connected
          /\ call' = Returned("Close", "", FALSE, FALSE)
          /\ UNCHANGED <<client, conns>>
       \/ /\ client.connected
          /\ client.done = "closed"
          /\ call' = [Returned("Close", "panic: close of closed channel", TRUE, FALSE)
                          EXCEPT !.pc = "panicked"]
          /\ UNCHANGED <<client, conns>>
       \/ /\ client.connected
          /\ client.done = "open"
          /\ client' = [client EXCEPT !.done = "closed", !.connected = FALSE]
          /\ IF IsNil(client.conn)
             THEN /\ conns' = conns
                  /\ call' = Returned("Close", "", TRUE, FALSE)
             ELSE /\ conns' = closeConn(conns, Deref(client.conn))
                  /\ \E err \in (IF conns[Deref(client.conn)].net = "open"
                                 THEN {""} ELSE {"", "use of closed network connection"}) :
                        call' = Returned("Close", err, TRUE, FALSE)
    /\ UNCHANGED <<call2, now, invoked, command>>
    /\ UNCHANGED genVars

\* send: refused without a connection, otherwise the message is written to
\* the connection the client holds; the error and whether a write was made.
send ==
    IF sendRefused(client)
    THEN {[err |-> "not connected", wrote |-> FALSE]}
    ELSE {[err |-> e, wrote |-> TRUE] : e \in writeErrors(client, conns)}

\* Client.Subscribe: the handler is registered, then the subscribe message is
\* sent.
Subscribe ==
    /\ command = "watch"
    /\ Callable
    /\ \E topic \in Topics, handler \in Handlers, t \in now..MaxTime :
          /\ now' = t
          /\ client' = [client EXCEPT
                           !.handlers = MapMerge(@, [x \in {topic} |-> handler])]
          /\ \E s \in send :
                call' = [Returned("Subscribe", s.err, client.connected, s.wrote)
                             EXCEPT !.topic = topic]
    /\ UNCHANGED <<conns, call2, invoked, command>>
    /\ UNCHANGED genVars

\* Client.Unsubscribe: the topic's handler is removed, then the unsubscribe
\* message is sent.
Unsubscribe ==
    /\ command = "watch"
    /\ Callable
    /\ \E topic \in Topics, t \in now..MaxTime :
          /\ now' = t
          /\ client' = [client EXCEPT !.handlers = MapDelete(@, topic)]
          /\ \E s \in send :
                call' = [Returned("Unsubscribe", s.err, client.connected, s.wrote)
                             EXCEPT !.topic = topic]
    /\ UNCHANGED <<conns, call2, invoked, command>>
    /\ UNCHANGED genVars

\* request up to its select, for the request id t: the response channel is
\* registered under t and the request is sent; a send that fails returns its
\* error, whatever is registered under t removed. The caller after, and
\* whether its channel stays registered.
requestSent(op, t) ==
    {[caller     |-> IF s.err = ""
                     THEN [Returned(op, "", client.connected, TRUE)
                               EXCEPT !.pc = "waiting", !.id = t]
                     ELSE Returned(op, s.err, client.connected, s.wrote),
      registered |-> s.err = ""] : s \in send}

\* The pending-response map after the goroutine who got as far as r.
pendingAfter(who, t, r) ==
    IF r.registered
    THEN MapMerge(client.responses, [x \in {t} |-> who])
    ELSE MapDelete(client.responses, t)

\* Client.ListPersonas up to the select of request, called by the caller.
ListPersonas ==
    /\ command = "sync"
    /\ Callable
    /\ \E t \in now..MaxTime :
          /\ now' = t
          /\ \E r \in requestSent("ListPersonas", t) :
                /\ call' = r.caller
                /\ client' = [client EXCEPT !.responses = pendingAfter("call", t, r)]
    /\ UNCHANGED <<conns, call2, invoked, command>>
    /\ UNCHANGED genVars

\* Client.GetCluster up to the select of request, called by the second
\* goroutine.
GetCluster ==
    /\ command = "sync"
    /\ Running
    /\ call2.pc = "returned"
    /\ \E t \in now..MaxTime :
          /\ now' = t
          /\ \E r \in requestSent("GetCluster", t) :
                /\ call2' = r.caller
                /\ client' = [client EXCEPT !.responses = pendingAfter("call2", t, r)]
    /\ UNCHANGED <<conns, call, invoked, command>>
    /\ UNCHANGED genVars

\* The select of request for the goroutine g: the message on its channel (an
\* error message becomes the error it carries), or the context's end or the
\* timeout. The message answered with nil error is the one the channel held;
\* the channel and the request's id end with the call.
selected(g) ==
    {[g EXCEPT !.pc = "returned", !.err = err, !.id = 0, !.resp = Nil] :
        err \in (IF IsNil(g.resp) THEN {}
                 ELSE IF Deref(g.resp).Type = "error" THEN {"code: message"} ELSE {""})
                    \cup {"context canceled", "request timeout"}}

\* The return of request: whatever is registered under the request's id is
\* removed on every path.
request ==
    /\ Running
    /\ \/ /\ call.pc = "waiting"
          /\ call' \in selected(call)
          /\ client' = [client EXCEPT !.responses = MapDelete(@, call.id)]
          /\ call2' = call2
       \/ /\ call2.pc = "waiting"
          /\ call2' \in selected(call2)
          /\ client' = [client EXCEPT !.responses = MapDelete(@, call2.id)]
          /\ call' = call
    /\ UNCHANGED <<conns, now, invoked, command>>
    /\ UNCHANGED genVars

\* readPump's return: connected is cleared and the connection the client
\* holds is closed.
pumpReturns(n) ==
    /\ client' = [client EXCEPT !.connected = FALSE]
    /\ conns' = [(IF IsNil(client.conn) THEN conns ELSE closeConn(conns, Deref(client.conn)))
                    EXCEPT ![n].pump = "returned"]
    /\ UNCHANGED <<call, call2, invoked>>

\* One step of the read pump started for connection n: the check of done,
\* then a read on the connection the client holds, whose message is handled.
readPump ==
    /\ Running
    /\ \E n \in DOMAIN conns :
          \/ /\ conns[n].pump = "select"
             /\ IF client.done = "closed"
                THEN pumpReturns(n)
                ELSE /\ conns' = [conns EXCEPT ![n].pump = "read",
                                               ![n].reading = Deref(client.conn)]
                     /\ UNCHANGED <<client, call, call2, invoked>>
          \/ /\ conns[n].pump = "read"
             /\ conns[conns[n].reading].net # "open"
             /\ pumpReturns(n)
          \/ /\ conns[n].pump = "read"
             /\ conns[conns[n].reading].net = "open"
             /\ \E msg \in ServerMessages :
                   /\ call' = deliver(call, "call", client.responses, msg)
                   /\ call2' = deliver(call2, "call2", client.responses, msg)
                   /\ invoked' = [msg |-> msg, started |-> dispatch(client.handlers, msg)]
             /\ conns' = [conns EXCEPT ![n].pump = "select"]
             /\ client' = client
    /\ UNCHANGED <<now, command>>
    /\ UNCHANGED genVars

\* The operator or the network ends a connection.
ConnectionLost ==
    /\ Running
    /\ \E n \in DOMAIN conns :
          /\ conns[n].net = "open"
          /\ conns' = [conns EXCEPT ![n].net = "lost"]
    /\ UNCHANGED <<client, call, call2, now, invoked, command>>
    /\ UNCHANGED genVars

\* The steps of the generate command, of the commands of the client, and of
\* the program.
runGenerate == ResolveConfig \/ Generate \/ Validate

runWatch == Connect \/ Close \/ Subscribe \/ Unsubscribe \/ readPump \/ ConnectionLost

runSync ==
    \/ Connect \/ Close \/ ListPersonas \/ GetCluster \/ request \/ readPump
    \/ ConnectionLost

Next == runGenerate \/ runWatch \/ runSync

Init == InitWith(GenAnalyses, GenOptions)

Spec == Init /\ [][runGenerate]_vars
SpecRes == InitWith(ResAnalyses, {Options(FALSE, FALSE, FALSE, "")}) /\ [][runGenerate]_vars
SpecScale == InitWith(ScaleAnalyses, {Options(FALSE, FALSE, FALSE, "")}) /\ [][runGenerate]_vars
SpecHealth == InitWith(HealthAnalyses, {Options(FALSE, FALSE, FALSE, "")}) /\ [][runGenerate]_vars
SpecVal == InitWith(ValAnalyses, {Options(TRUE, TRUE, TRUE, reg) : reg \in {"", "ghcr.io/acme"}}) /\ [][runGenerate]_vars
SpecBounds == InitWith(BoundsAnalyses, {Options(TRUE, TRUE, TRUE, "")}) /\ [][runGenerate]_vars
SpecEnv == InitWith(EnvAnalyses, {Options(TRUE, TRUE, TRUE, "")}) /\ [][runGenerate]_vars
SpecSec == InitWith(SecAnalyses, SecOptions) /\ [][runGenerate]_vars
SpecLayers == InitLayers /\ [][runGenerate]_vars
SpecClient == InitClient({"watch", "sync"}) /\ [][runWatch \/ runSync]_vars
SpecWatch == InitClient({"watch"}) /\ [][runWatch]_vars
SpecSync == InitClient({"sync"}) /\ [][runSync]_vars

\* Repository of the analysis and of the app config vary, with and without
\* the GitOps document.
SpecRepo ==
    /\ InitWith({Analysis(n, <<>>, Nil, Nil, "api", ac, repo) :
                    n \in {"orders", "billing"},
                    repo \in {"", "https://github.com/acme/orders.git"},
                    ac \in {Nil}
                           \cup {Ptr([AppConfigContext(Nil, Nil, Nil) EXCEPT !.Repository = r]) :
                                    r \in {"", "https://github.com/acme/orders.git",
                                           "https://gitlab.com/acme/orders.git"}}},
                {Options(sa, TRUE, sp, "") : sa \in BOOLEAN, sp \in BOOLEAN})
    /\ [][runGenerate]_vars

\* Organisation-level and app-level custom labels vary, among them the
\* canonical name label's key.
SpecLabels ==
    /\ InitWith({[Analysis(n, p, Nil, Nil, "api", ac, "") EXCEPT !.Team = team] :
                    n \in {"orders", "billing"},
                    p \in {<<>>, <<[Port |-> 8080, Protocol |-> "TCP", Purpose |-> "HTTP API"]>>},
                    team \in {"", "payments"},
                    ac \in {Nil}
                           \cup {Ptr([AppConfigContext(Nil, Nil, Nil) EXCEPT !.Labels = l]) :
                                    l \in {EmptyMap, [k \in {"tier"} |-> "backend"],
                                           [k \in {NameLabel} |-> "orders-v2"],
                                           [k \in {NameLabel, "tier"} |-> "orders"]}}},
                {[Options(TRUE, TRUE, TRUE, "") EXCEPT !.Config.Labels.Custom = l] :
                    l \in {EmptyMap, [k \in {"tier"} |-> "frontend"],
                           [k \in {NameLabel} |-> "legacy"]}})
    /\ [][runGenerate]_vars

\* The declared ports vary in number and order, with the ingress paths of
\* the app config.
SpecIngress ==
    /\ InitWith({Analysis("orders", p, Nil, Nil, "api", ac, "") :
                    p \in UNION {[1..n -> {[Port |-> port, Protocol |-> "TCP", Purpose |-> ""] :
                                              port \in {80, 8080, 9090}}] : n \in 0..MaxPorts},
                    ac \in {Nil, Ptr(IngressAppConfig),
                            Ptr([IngressAppConfig EXCEPT
                                    !.Ingress[1].Paths = <<[Path |-> "/api", PathType |-> ""],
                                                           [Path |-> "/", PathType |-> "Exact"]>>])}},
                {Options(TRUE, TRUE, TRUE, "")})
    /\ [][runGenerate]_vars

-----------------------------------------------------------------------------
(* Reading the generated list *)

Paths(fs) == [i \in 1..Len(fs) |-> fs[i].Path]
HasFile(fs, path) == \E i \in 1..Len(fs) : fs[i].Path = path
FileContent(fs, path) == fs[CHOOSE i \in 1..Len(fs) : fs[i].Path = path].Content
Generated == genCalls > 0 /\ IsNil(genErr)

-----------------------------------------------------------------------------
(* Properties *)

IssuesOf(category) == {i \in 1..Len(result.Issues) : result.Issues[i].Category = category}

\* C1: the result of ValidateGenerated has Passed = TRUE if and only if none
\* of its Issues has severity "error".
C1_PassedIffNoError ==
    validated =>
        (result.Passed <=> \A i \in 1..Len(result.Issues) : result.Issues[i].Severity # SeverityError)

\* A run whose result holds exactly one error beside warnings or infos.
C1_Witness ==
    /\ validated
    /\ ~result.Passed
    /\ countSeverity(result.Issues, SeverityError) = 1
    /\ Len(result.Issues) > 1
    /\ result.Issues[1].Severity # SeverityError

\* The resource value the claim names: the app config override when it is
\* non-empty, otherwise the profile's value.
ExpectedResources ==
    LET prof == GetResourcesForProfile(opts.Config, analysis.ResourceProfile)
        over == ~IsNil(analysis.AppConfig) /\ ~IsNil(Deref(analysis.AppConfig).Resources)
        r    == Deref(Deref(analysis.AppConfig).Resources)
    IN  [Requests |-> [CPU    |-> IF over /\ Len(r.RequestsCPU) > 0 THEN r.RequestsCPU
                                  ELSE prof.Requests.CPU,
                       Memory |-> IF over /\ Len(r.RequestsMemory) > 0 THEN r.RequestsMemory
                                  ELSE prof.Requests.Memory],
         Limits   |-> [CPU    |-> IF over /\ Len(r.LimitsCPU) > 0 THEN r.LimitsCPU
                                  ELSE prof.Limits.CPU,
                       Memory |-> IF over /\ Len(r.LimitsMemory) > 0 THEN r.LimitsMemory
                                  ELSE prof.Limits.Memory]]

SameResources(x, y) ==
    /\ x.Requests.CPU = y.Requests.CPU
    /\ x.Requests.Memory = y.Requests.Memory
    /\ x.Limits.CPU = y.Limits.CPU
    /\ x.Limits.Memory = y.Limits.Memory

\* C2: each of requests.cpu, requests.memory, limits.cpu, limits.memory is the
\* same in deployment.yaml, in persona.yaml and in the validator's bounds rule:
\* the app config override when non-empty, else the profile's value; the
\* rule's "resources" errors are those of that value.
C2_ResourceOverridePrecedence ==
    /\ Generated =>
          /\ SameResources(FileContent(files, "deployment.yaml").Container.Resources,
                           ExpectedResources)
          /\ SameResources(FileContent(files, "persona.yaml").Resources, ExpectedResources)
          /\ SameResources(validateResources(analysis, opts), ExpectedResources)
    /\ validated =>
          Cardinality(IssuesOf("resources")) =
              (IF parseCPUMillis(ExpectedResources.Requests.CPU) > 0
                  /\ parseCPUMillis(ExpectedResources.Limits.CPU) > 0
                  /\ parseCPUMillis(ExpectedResources.Requests.CPU)
                       > parseCPUMillis(ExpectedResources.Limits.CPU) THEN 1 ELSE 0)
              + (IF BytesPositive(parseMemoryBytes(ExpectedResources.Requests.Memory))
                    /\ BytesPositive(parseMemoryBytes(ExpectedResources.Limits.Memory))
                    /\ BytesGreater(parseMemoryBytes(ExpectedResources.Requests.Memory),
                                    parseMemoryBytes(ExpectedResources.Limits.Memory))
                 THEN 1 ELSE 0)

\* requests.cpu overridden to "750m" on the "api" profile, memory limit
\* overridden too, documents generated and validated.
C2_Witness ==
    /\ Generated
    /\ validated
    /\ analysis.ResourceProfile = "api"
    /\ ~IsNil(analysis.AppConfig)
    /\ ~IsNil(Deref(analysis.AppConfig).Resources)
    /\ Deref(Deref(analysis.AppConfig).Resources).RequestsCPU = <<"7", "5", "0", "m">>
    /\ Deref(Deref(analysis.AppConfig).Resources).LimitsMemory = <<"6", "4", "M", "i">>
    /\ FileContent(files, "deployment.yaml").Container.Resources.Requests.CPU = <<"7", "5", "0", "m">>
    /\ FileContent(files, "deployment.yaml").Container.Resources.Limits.CPU = <<"1", "0", "0", "0", "m">>

\* Per-field resolution of the claim: override (> 0), else analysis (> 0),
\* else the default.
OverrideScaling(field) ==
    IF ~IsNil(analysis.AppConfig) /\ ~IsNil(Deref(analysis.AppConfig).Scaling)
    THEN Deref(Deref(analysis.AppConfig).Scaling)[field] ELSE 0

AnalysisScaling(field) ==
    IF ~IsNil(analysis.Scaling) THEN Deref(analysis.Scaling)[field] ELSE 0

ResolvedScaling(field, default) ==
    IF OverrideScaling(field) > 0 THEN OverrideScaling(field)
    ELSE IF AnalysisScaling(field) > 0 THEN AnalysisScaling(field)
    ELSE default

MetricsNamed(hpa, name) == {i \in 1..Len(hpa.Metrics) : hpa.Metrics[i].Name = name}

\* C3: in hpa.yaml each of minReplicas, maxReplicas, targetCPU, targetMemory
\* is the override's value when set (> 0), otherwise analysis.scaling's value
\* when set, otherwise the default (2, 10, 70, 0); a memory metric is present
\* iff the resolved targetMemory > 0.
C3_HPAFieldPrecedence ==
    (Generated /\ HasFile(files, "hpa.yaml")) =>
        LET hpa == FileContent(files, "hpa.yaml")
        IN  /\ hpa.MinReplicas = ResolvedScaling("MinReplicas", 2)
            /\ hpa.MaxReplicas = ResolvedScaling("MaxReplicas", 10)
            /\ \A i \in MetricsNamed(hpa, "cpu") :
                  hpa.Metrics[i].AverageUtilization = ResolvedScaling("TargetCPU", 70)
            /\ (MetricsNamed(hpa, "memory") # {}) <=> (ResolvedScaling("TargetMemory", 0) > 0)

OverrideHealth == Deref(Deref(analysis.AppConfig).Health)
HasOverrideHealth == ~IsNil(analysis.AppConfig) /\ ~IsNil(Deref(analysis.AppConfig).Health)
OverrideLivenessPath == IF HasOverrideHealth THEN OverrideHealth.LivenessPath ELSE ""
OverrideReadinessPath == IF HasOverrideHealth THEN OverrideHealth.ReadinessPath ELSE ""

\* C4: in deployment.yaml a liveness path of the override gives the liveness
\* probe its path and port, a readiness path of the override gives the
\* readiness probe its path and port, whatever analysis.healthCheck holds;
\* without either source there is no probe.
C4_HealthOverridePrecedence ==
    Generated =>
        LET c == FileContent(files, "deployment.yaml").Container
        IN  /\ OverrideLivenessPath # "" =>
                  /\ ~IsNil(c.LivenessProbe)
                  /\ Deref(c.LivenessProbe).Path = OverrideHealth.LivenessPath
                  /\ Deref(c.LivenessProbe).Port = OverrideHealth.LivenessPort
            /\ OverrideReadinessPath # "" =>
                  /\ ~IsNil(c.ReadinessProbe)
                  /\ Deref(c.ReadinessProbe).Path = OverrideHealth.ReadinessPath
                  /\ Deref(c.ReadinessProbe).Port = OverrideHealth.ReadinessPort
            /\ (OverrideLivenessPath = "" /\ IsNil(analysis.HealthCheck)) => IsNil(c.LivenessProbe)
            /\ (OverrideReadinessPath = "" /\ OverrideLivenessPath = "" /\ IsNil(analysis.HealthCheck))
                  => IsNil(c.ReadinessProbe)

\* C5: with a liveness path configured (by the override or by
\* analysis.healthCheck) and no readiness path configured, deployment.yaml has
\* a readiness probe on the liveness probe's path and persona.yaml's
\* readinessPath equals its livenessPath.
C5_ReadinessDefaultsToLiveness ==
    (Generated /\ OverrideReadinessPath = ""
       /\ (OverrideLivenessPath # "" \/ ~IsNil(analysis.HealthCheck))) =>
        LET c == FileContent(files, "deployment.yaml").Container
            h == FileContent(files, "persona.yaml").Health
        IN  /\ ~IsNil(c.LivenessProbe)
            /\ ~IsNil(c.ReadinessProbe)
            /\ Deref(c.ReadinessProbe).Path = Deref(c.LivenessProbe).Path
            /\ ~IsNil(h)
            /\ Deref(h).ReadinessPath = Deref(h).LivenessPath

\* C6: with an empty ports list the generated list holds neither service.yaml
\* nor ingress.yaml, and with scaling = nil it holds no hpa.yaml, whatever the
\* other fields and options are.
C6_ConditionalEmission ==
    Generated =>
        /\ Len(analysis.Ports) = 0 =>
              (~HasFile(files, "service.yaml") /\ ~HasFile(files, "ingress.yaml"))
        /\ IsNil(analysis.Scaling) => ~HasFile(files, "hpa.yaml")

\* No port, no scaling, yet an app config that enables ingress and sets
\* scaling; the other documents are generated.
C6_Witness ==
    /\ Generated
    /\ Len(analysis.Ports) = 0
    /\ IsNil(analysis.Scaling)
    /\ ~IsNil(analysis.AppConfig)
    /\ ~IsNil(Deref(analysis.AppConfig).Scaling)
    /\ HasFile(files, "argocd/application.yaml")
    /\ ~HasFile(files, "hpa.yaml")

DocumentOrder ==
    <<"deployment.yaml", "service.yaml", "ingress.yaml", "hpa.yaml", "argocd/application.yaml",
      "../.github/workflows/deploy.yaml", "../PERSONA.md", "persona.yaml">>

OrderIndex(path) == CHOOSE i \in 1..Len(DocumentOrder) : DocumentOrder[i] = path

\* C7: the list of a successful Generate is a subsequence without repetition
\* of the fixed document order, and its first element is deployment.yaml.
C7_DocumentOrder ==
    Generated =>
        /\ Len(files) >= 1
        /\ files[1].Path = "deployment.yaml"
        /\ \A i \in 1..Len(files) : \E k \in 1..Len(DocumentOrder) : DocumentOrder[k] = files[i].Path
        /\ \A i, j \in 1..Len(files) :
              i < j => OrderIndex(files[i].Path) < OrderIndex(files[j].Path)

\* All eight documents in one list.
C7_Witness == Generated /\ Paths(files) = DocumentOrder

SameLLMResult ==
    \/ llmOutcome = prevLLMOutcome
    \/ (llmOutcome \in LLMFailures /\ prevLLMOutcome \in LLMFailures)

C9_EmptyNameFatal ==
    (genCalls > 0 /\ analysis.Name = "") => (~IsNil(genErr) /\ files = <<>>)

\* C10: with SkipPersona false Generate succeeds; when the free-text persona
\* fails the list holds ../PERSONA.md with the basic persona; when the
\* structured persona fails persona.yaml is omitted and the list is otherwise
\* the one generated without personas plus ../PERSONA.md.
C10_PersonaFailuresNonFatal ==
    (genCalls > 0 /\ ~opts.SkipPersona) =>
        /\ IsNil(genErr)
        /\ HasFile(files, "../PERSONA.md")
        /\ llmOutcome \in LLMFailures =>
              FileContent(files, "../PERSONA.md") = generateBasicPersona(analysis)
        /\ personaYAMLFails(analysis) =>
              /\ ~HasFile(files, "persona.yaml")
              /\ files = GenerateFiles(analysis, [opts EXCEPT !.SkipPersona = TRUE], "unused")
                         \o <<File("../PERSONA.md", FileContent(files, "../PERSONA.md"))>>

\* Both persona steps failed in one call, and the call returned documents.
C10_Witness ==
    /\ genCalls > 0
    /\ ~opts.SkipPersona
    /\ llmOutcome \in LLMFailures
    /\ personaYAMLFails(analysis)
    /\ IsNil(genErr)
    /\ HasFile(files, "../PERSONA.md")
    /\ ~HasFile(files, "persona.yaml")
    /\ Len(files) >= 3

RemovePath(fs, path) ==
    LET Keep(f) == f.Path # path IN SelectSeq(fs, Keep)

\* The list Generate returns for the same analysis, configuration and LLM
\* result when the options are o.
RunWith(o) == GenerateFiles(analysis, o, llmOutcome)

\* C11: a list generated with SkipArgoCD set is the list of the run without
\* the flag with exactly argocd/application.yaml removed, and a list generated
\* with SkipCI set is the list of the run without that flag with exactly
\* ../.github/workflows/deploy.yaml removed: every other document keeps its
\* presence, relative order and content.
C11_SkipFlagsFrame ==
    Generated =>
        /\ opts.SkipArgoCD =>
              LET other == RunWith([opts EXCEPT !.SkipArgoCD = FALSE])
              IN  /\ HasFile(other, "argocd/application.yaml")
                  /\ ~HasFile(files, "argocd/application.yaml")
                  /\ files = RemovePath(other, "argocd/application.yaml")
        /\ opts.SkipCI =>
              LET other == RunWith([opts EXCEPT !.SkipCI = FALSE])
              IN  /\ HasFile(other, "../.github/workflows/deploy.yaml")
                  /\ ~HasFile(files, "../.github/workflows/deploy.yaml")
                  /\ files = RemovePath(other, "../.github/workflows/deploy.yaml")

\* ArgoCD skipped alone: the workflow, the autoscaler, the ingress and both
\* personas are still in the list.
C11_Witness ==
    /\ Generated
    /\ opts.SkipArgoCD
    /\ ~opts.SkipCI
    /\ Paths(files) = <<"deployment.yaml", "service.yaml", "ingress.yaml", "hpa.yaml",
                        "../.github/workflows/deploy.yaml", "../PERSONA.md", "persona.yaml">>

NoSkip == ~opts.SkipArgoCD /\ ~opts.SkipCI /\ ~opts.SkipPersona

\* C12: for an analysis with a non-empty name, at least one port of any
\* number or purpose and non-nil scaling, and with no skip option set,
\* Generate returns exactly eight documents, one at each of the eight paths.
C12_EightDocuments ==
    (Generated /\ analysis.Name # "" /\ Len(analysis.Ports) >= 1
       /\ ~IsNil(analysis.Scaling) /\ NoSkip) =>
        /\ Len(files) = 8
        /\ \A k \in 1..Len(DocumentOrder) :
              Cardinality({i \in 1..Len(files) : files[i].Path = DocumentOrder[k]}) = 1

\* Eight documents for an application whose only ports are metrics ports
\* outside the well-known HTTP set.
C12_Witness ==
    /\ Generated
    /\ NoSkip
    /\ analysis.Name # ""
    /\ Len(analysis.Ports) >= 1
    /\ \A i \in 1..Len(analysis.Ports) : analysis.Ports[i].Port = 9090
    /\ ~IsNil(analysis.Scaling)
    /\ Len(files) = 8
    /\ HasFile(files, "ingress.yaml")

\* CPU in thousandths of a core as the rule is stated: "Nm" is N and "N" is
\* N x 1000, for quantities of at most three fraction digits.
NormalisedCPU(q) ==
    IF HasSuffix(q, <<"m">>) THEN DigitsValue(TrimSuffix(q, <<"m">>), 0)
    ELSE LET n    == DigitPrefixLen(q)
             frac == IF n < Len(q) THEN SubSeq(q, n + 2, Len(q)) ELSE <<>>
         IN  DigitsValue(SubSeq(q, 1, n), 0) * 1000
             + DigitsValue(frac, 0) * Pow10(3 - Len(frac))

\* Memory in bytes as the rule is stated, held as Bytes.
NormalisedMemory(q) ==
    LET num(suf) == DigitsValue(TrimSuffix(q, suf), 0)
    IN  IF HasSuffix(q, <<"K", "i">>) THEN Bytes(num(<<"K", "i">>) \div Ki, (num(<<"K", "i">>) % Ki) * Ki)
        ELSE IF HasSuffix(q, <<"M", "i">>) THEN Bytes(num(<<"M", "i">>), 0)
        ELSE IF HasSuffix(q, <<"G", "i">>) THEN Bytes(num(<<"G", "i">>) * Ki, 0)
        ELSE IF HasSuffix(q, <<"T", "i">>) THEN Bytes(num(<<"T", "i">>) * Mi, 0)
        ELSE Bytes(DigitsValue(q, 0) \div Mi, DigitsValue(q, 0) % Mi)

ResourceErrors(message) ==
    {i \in 1..Len(result.Issues) :
        /\ result.Issues[i].Category = "resources"
        /\ result.Issues[i].Severity = SeverityError
        /\ result.Issues[i].Message = message}

\* C13: the validator emits one "resources" error for CPU exactly when the
\* normalised CPU request is greater than the normalised CPU limit, and one
\* for memory exactly when the normalised memory request is greater than the
\* normalised memory limit.
C13_ResourceBoundsRule ==
    validated =>
        LET r == validateResources(analysis, opts)
        IN  /\ Cardinality(ResourceErrors("CPU request > limit"))
                 = (IF NormalisedCPU(r.Requests.CPU) > NormalisedCPU(r.Limits.CPU) THEN 1 ELSE 0)
            /\ Cardinality(ResourceErrors("memory request > limit"))
                 = (IF BytesGreater(NormalisedMemory(r.Requests.Memory),
                                    NormalisedMemory(r.Limits.Memory)) THEN 1 ELSE 0)

\* C14: whenever hpa.yaml is generated, the validator reports an error of
\* category "scaling" exactly when the minReplicas written into hpa.yaml is
\* greater than the maxReplicas written into hpa.yaml.
C14_HPARuleMatchesDocument ==
    (validated /\ HasFile(files, "hpa.yaml")) =>
        LET hpa == FileContent(files, "hpa.yaml")
        IN  (\E i \in IssuesOf("scaling") : result.Issues[i].Severity = SeverityError)
            <=> (hpa.MinReplicas > hpa.MaxReplicas)

\* C15: when analysis.scaling is nil the list holds no hpa.yaml and the
\* validator, which always returns a result, reports no issue of category
\* "scaling" and no issue on file hpa.yaml, whatever the app config holds.
C15_NoScalingIssueWithoutHPA ==
    (validated /\ IsNil(analysis.Scaling)) =>
        /\ ~HasFile(files, "hpa.yaml")
        /\ IssuesOf("scaling") = {}
        /\ \A i \in 1..Len(result.Issues) : result.Issues[i].File # "hpa.yaml"

NumberOf(sev) == Cardinality({i \in 1..Len(result.Issues) : result.Issues[i].Severity = sev})

\* C16: with no issues the summary states that all checks passed; otherwise
\* its parts are, in the order errors, warnings, infos, exactly the severities
\* with a non-zero count, each with the number of issues of that severity.
C16_Summary ==
    validated =>
        LET all == <<[N |-> NumberOf(SeverityError), Label |-> "error(s)"],
                     [N |-> NumberOf(SeverityWarning), Label |-> "warning(s)"],
                     [N |-> NumberOf(SeverityInfo), Label |-> "info(s)"]>>
            NonZero(part) == part.N # 0
        IN  IF Len(result.Issues) = 0
            THEN result.Summary.AllPassed /\ result.Summary.Parts = <<>>
            ELSE ~result.Summary.AllPassed /\ result.Summary.Parts = SelectSeq(all, NonZero)

\* Several errors next to warnings and infos, all three listed.
C16_Witness ==
    /\ validated
    /\ Len(result.Summary.Parts) = 3
    /\ result.Summary.Parts[1] = [N |-> NumberOf(SeverityError), Label |-> "error(s)"]
    /\ NumberOf(SeverityError) >= 2
    /\ NumberOf(SeverityWarning) >= 1

\* C17: for every environment variable marked secret the deployment's entry
\* has no inline value and references the secret lowercase(app name) +
\* "-secrets" with key lowercase(variable name), also when the variable
\* carries a literal value; a non-secret variable with a literal value is
\* emitted inline.
C17_SecretEnvRedirection ==
    Generated =>
        LET env == FileContent(files, "deployment.yaml").Container.Env
        IN  /\ Len(env) = Len(analysis.EnvVars)
            /\ \A i \in 1..Len(env) :
                  LET e == analysis.EnvVars[i]
                  IN  /\ env[i].Name = e.Name
                      /\ e.Secret =>
                            /\ env[i].Value = ""
                            /\ env[i].ValueFrom =
                                 Ptr([SecretKeyRef |-> [Name |-> ToLower(analysis.Name) \o "-secrets",
                                                        Key  |-> ToLower(e.Name)]])
                      /\ (~e.Secret /\ e.Value # "") =>
                            (env[i].Value = e.Value /\ IsNil(env[i].ValueFrom))

\* Application "Orders" with the secret DB_PASSWORD that carries a literal
\* value, next to an inline variable.
C17_Witness ==
    /\ Generated
    /\ analysis.Name = "Orders"
    /\ analysis.EnvVars = <<EnvVar("DB_PASSWORD", "hunter2", TRUE), EnvVar("LOG_LEVEL", "debug", FALSE)>>
    /\ FileContent(files, "deployment.yaml").Container.Env =
          <<[Name |-> "DB_PASSWORD", Value |-> "",
             ValueFrom |-> Ptr([SecretKeyRef |-> [Name |-> "orders-secrets", Key |-> "db_password"]])],
            [Name |-> "LOG_LEVEL", Value |-> "debug", ValueFrom |-> Nil]>>

RECURSIVE FirstNonEmpty(_)
FirstNonEmpty(chain) ==
    IF Len(chain) = 0 THEN ""
    ELSE IF Head(chain) # "" THEN Head(chain)
    ELSE FirstNonEmpty(Tail(chain))

\* C19: each setting the generate command resolves takes the first non-empty
\* value along CLI flag > app config > workspace config > global config >
\* built-in default (a layer that has no such setting is skipped), the values
\* reach genOpts, and the effective namespace is never empty.
C19_LayeredPrecedence ==
    ~IsNil(effective) =>
        LET e == Deref(effective)
            f == layers.Flags
            w == layers.Workspace
            g == layers.Global
        IN  /\ e.Namespace = FirstNonEmpty(<<f.Namespace, g.Namespace, "default">>)
            /\ e.Registry = FirstNonEmpty(<<w.Registry, g.Registry>>)
            /\ e.OrgName = FirstNonEmpty(<<w.OrgName, g.OrgName>>)
            /\ e.Provider = FirstNonEmpty(<<f.LLMProvider, w.LLMProvider, g.LLMProvider, "openai">>)
            /\ e.Namespace # ""
            /\ opts.Namespace = e.Namespace
            /\ opts.Config.CI.Registry = e.Registry
            /\ opts.Config.Org.Name = e.OrgName

\* C20: the client's connection state as its callers see it. After a Connect
\* that returned nil the client is connected for as long as the connection it
\* holds has not been lost; after Close it is not connected; after a Connect
\* that returned an error it is not connected; and a Subscribe or ListPersonas
\* made while the client was not connected answered "not connected" and wrote
\* nothing to a connection.
C20_ConnectionState ==
    /\ (/\ call.op = "Connect"
        /\ call.err = ""
        /\ conns[Deref(client.conn)].net # "lost") => IsConnected(client)
    /\ call.op = "Close" => ~IsConnected(client)
    /\ (call.op = "Connect" /\ call.err # "") => ~IsConnected(client)
    /\ (call.op \in {"Subscribe", "ListPersonas"} /\ ~call.wasConnected)
           => (call.err = "not connected" /\ ~call.wrote)

C24_RepositoryResolution ==
    /\ (Generated /\ HasFile(files, "argocd/application.yaml")) =>
           FileContent(files, "argocd/application.yaml").Source.RepoURL =
               (IF analysis.Repository # "" THEN analysis.Repository
                ELSE IF ~IsNil(analysis.AppConfig) /\ Deref(analysis.AppConfig).Repository # ""
                THEN Deref(analysis.AppConfig).Repository
                ELSE "https://github.com/YOUR_ORG/" \o analysis.Name \o ".git")
    /\ validated =>
           ((\E i \in 1..Len(result.Issues) :
                 /\ result.Issues[i].Message = "Repository URL not set"
                 /\ result.Issues[i].Severity = SeverityInfo)
            <=> analysis.Repository = "")

\* The analysis's repository wins over a different one in the app config,
\* and no info is reported.
C24_Witness ==
    /\ validated
    /\ HasFile(files, "argocd/application.yaml")
    /\ analysis.Repository = "https://github.com/acme/orders.git"
    /\ ~IsNil(analysis.AppConfig)
    /\ Deref(analysis.AppConfig).Repository = "https://gitlab.com/acme/orders.git"
    /\ FileContent(files, "argocd/application.yaml").Source.RepoURL = analysis.Repository
    /\ \A i \in 1..Len(result.Issues) : result.Issues[i].Message # "Repository URL not set"

\* C25: whenever hpa.yaml is generated, the replicas of deployment.yaml equal
\* the minReplicas of hpa.yaml.
C25_ReplicasMatchHPA ==
    (Generated /\ HasFile(files, "hpa.yaml")) =>
        FileContent(files, "deployment.yaml").Replicas = FileContent(files, "hpa.yaml").MinReplicas

Contained(selector, labels) ==
    \A k \in DOMAIN selector : k \in DOMAIN labels /\ labels[k] = selector[k]

\* C26: the Deployment's matchLabels and the Service's selector, both
\* {app.kubernetes.io/name: analysis.Name}, are contained in the labels of
\* the Deployment's pod template.
C26_SelectorsMatchPods ==
    Generated =>
        LET pod == FileContent(files, "deployment.yaml").PodLabels
        IN  /\ FileContent(files, "deployment.yaml").MatchLabels = [k \in {NameLabel} |-> analysis.Name]
            /\ Contained(FileContent(files, "deployment.yaml").MatchLabels, pod)
            /\ HasFile(files, "service.yaml") =>
                   /\ FileContent(files, "service.yaml").Selector = [k \in {NameLabel} |-> analysis.Name]
                   /\ Contained(FileContent(files, "service.yaml").Selector, pod)

\* C27: the validator reports "No health probes configured" exactly when the
\* container of deployment.yaml has neither a liveness nor a readiness probe.
C27_ProbeWarningMatchesWorkload ==
    validated =>
        LET container == FileContent(files, "deployment.yaml").Container
        IN  (\E i \in 1..Len(result.Issues) :
                 result.Issues[i].Message = "No health probes configured")
            <=> (IsNil(container.LivenessProbe) /\ IsNil(container.ReadinessProbe))

\* C28: every path of the generated Ingress routes to the first declared
\* port whose number is one of 80, 8080, 3000, 5000, 8000 when there is one,
\* and to the first declared port otherwise; that port is one of the ports
\* of the Service.
C28_IngressBackendPort ==
    (Generated /\ HasFile(files, "ingress.yaml")) =>
        LET ports    == analysis.Ports
            known    == {i \in 1..Len(ports) : ports[i].Port \in {80, 8080, 3000, 5000, 8000}}
            expected == IF known # {}
                        THEN ports[CHOOSE i \in known : \A j \in known : i <= j].Port
                        ELSE ports[1].Port
            paths    == FileContent(files, "ingress.yaml").Paths
            exposed  == FileContent(files, "service.yaml").Ports
        IN  \A i \in 1..Len(paths) :
                /\ paths[i].PortNumber = expected
                /\ \E j \in 1..Len(exposed) : exposed[j].Port = paths[i].PortNumber

\* C29: the security values under policies.security of persona.yaml equal
\* those of the security contexts of deployment.yaml of the same call.
C29_PersonaReportsWorkloadSecurity ==
    (Generated /\ HasFile(files, "persona.yaml")) =>
        LET policies   == FileContent(files, "persona.yaml").Policies
            deployment == FileContent(files, "deployment.yaml")
        IN  /\ policies.RunAsNonRoot = deployment.PodSecurityContext.RunAsNonRoot
            /\ policies.ReadOnlyRootFilesystem =
                   deployment.Container.SecurityContext.ReadOnlyRootFilesystem
            /\ policies.AllowPrivilegeEscalation =
                   deployment.Container.SecurityContext.AllowPrivilegeEscalation

\* C30: whatever the order of Connect and Close calls and of the read pumps'
\* steps, no Close panics on closing done a second time, and a Close on a
\* client that is not connected returns nil.
C30_CloseNeverPanics ==
    /\ call.pc # "panicked"
    /\ (call.op = "Close" /\ ~call.wasConnected) => call.err = ""

\* A step of a read pump that handled a message, which invoked then holds.
Handled == \E n \in DOMAIN conns : conns[n].pump = "read" /\ conns'[n].pump = "select"

\* C21: a call of request is answered with the response that carries its
\* request id when that response arrives while the call waits, and otherwise
\* with an error, also when another call is in flight: a nil error hands over
\* a message with the call's id that is not an error message, an error
\* message becomes the error it carries, a message with the call's id that is
\* handled while the call waits is on the call's channel afterwards, and when
\* the call returns, after a failed send too, nothing is registered under
\* its id.
Answered(g, after) ==
    (g.pc = "waiting" /\ after.pc = "returned") =>
        /\ g.id \notin DOMAIN client'.responses
        /\ after.err \in {"", "code: message"} =>
               /\ ~IsNil(g.resp)
               /\ Deref(g.resp).RequestID = g.id
               /\ (Deref(g.resp).Type = "error") <=> (after.err = "code: message")

Reached(g, after) ==
    (Handled /\ g.pc = "waiting" /\ invoked'.msg.RequestID = g.id) => ~IsNil(after.resp)

SendFailed(g, after) ==
    (g.pc = "returned" /\ after.pc = "returned" /\ after # g
            /\ after.op \in {"ListPersonas", "GetCluster"}) =>
        /\ after.err # ""
        /\ now' \notin DOMAIN client'.responses

C21_RequestCorrelation ==
    [][/\ Answered(call, call') /\ Answered(call2, call2')
       /\ Reached(call, call') /\ Reached(call2, call2')
       /\ SendFailed(call, call') /\ SendFailed(call2, call2')]_vars

\* C22: a handled message of type event on a topic starts the handler that
\* is registered for the topic at that moment and no other; with no handler
\* registered for its topic it starts none; and when the caller's last call
\* is an Unsubscribe of the topic that has returned, it starts none.
C22_EventDispatch ==
    [][Handled =>
          LET msg == invoked'.msg
          IN  msg.Type = "event" =>
                 /\ msg.Topic \in DOMAIN client.handlers
                        => invoked'.started = {client.handlers[msg.Topic]}
                 /\ msg.Topic \notin DOMAIN client.handlers => invoked'.started = {}
                 /\ (call.op = "Unsubscribe" /\ call.pc = "returned"
                         /\ call.topic = msg.Topic) => invoked'.started = {}]_vars

\* An event on cluster started h2 while h1 is registered for personas.
C22_Witness ==
    /\ invoked.msg = Message("event", "cluster", 0)
    /\ invoked.started = {"h2"}
    /\ "personas" \in DOMAIN client.handlers
    /\ client.handlers["personas"] = "h1"
====
